---- MODULE Spec2Model ----
(***************************************************************************)
(* A model of karakeep_client: the transport (_call), the resource         *)
(* operations of KarakeepClient, URL validation (validate_url), response   *)
(* validation against the pydantic models, and the bulk URL collector      *)
(* (get_all_urls).                                                         *)
(*                                                                         *)
(* Python values are tagged records [t |-> <type>, v |-> <payload>]; a      *)
(* Python str is a sequence of one-character strings, so that strip(),     *)
(* truthiness, the URL regex and URL normalisation are computed and not    *)
(* assumed.                                                                *)
(***************************************************************************)
EXTENDS Integers, Sequences, FiniteSets, TLC

-----------------------------------------------------------------------------
(* Python values *)

PyNone == [t |-> "None"]
PyStr(s) == [t |-> "str", v |-> s]
PyInt(n) == [t |-> "int", v |-> n]
PyFloat(n) == [t |-> "float", v |-> n]
PyBool(b) == [t |-> "bool", v |-> b]
PyList(l) == [t |-> "list", v |-> l]
PyDict(d) == [t |-> "dict", v |-> d]
PyBytes(s) == [t |-> "bytes", v |-> s]
PySet(S) == [t |-> "set", v |-> S]

\* the empty dict {}
EmptyMap == [k \in {} |-> PyNone]

IsNone(x) == x.t = "None"
IsStr(x) == x.t = "str"
IsList(x) == x.t = "list"
IsDict(x) == x.t = "dict"

\* bool(x): the truth value Python's `if x` / `not x` uses
Truthy(x) ==
    CASE x.t = "None" -> FALSE
      [] x.t = "bool" -> x.v
      [] x.t = "int" -> x.v # 0
      [] x.t = "dict" -> DOMAIN x.v # {}
      [] x.t = "set" -> x.v # {}
      [] x.t = "model" -> TRUE
      [] OTHER -> Len(x.v) > 0

\* d.get(k): the value under key k of a dict payload, PyNone when absent
Has(d, k) == k \in DOMAIN d
Get(d, k) == IF k \in DOMAIN d THEN d[k] ELSE PyNone

-----------------------------------------------------------------------------
(* Characters and str methods *)

Uppers == <<"A", "B", "C", "D", "E", "F", "G", "H", "I", "J", "K", "L", "M", "N", "O", "P", "Q", "R", "S", "T", "U", "V", "W", "X", "Y", "Z">>
Lowers == <<"a", "b", "c", "d", "e", "f", "g", "h", "i", "j", "k", "l", "m", "n", "o", "p", "q", "r", "s", "t", "u", "v", "w", "x", "y", "z">>
Digits == {"0", "1", "2", "3", "4", "5", "6", "7", "8", "9"}
Letters == {Uppers[i] : i \in 1..Len(Uppers)} \cup {Lowers[i] : i \in 1..Len(Lowers)}

IsSpace(c) == c \in {" ", "\t", "\n"}

LowerChar(c) ==
    IF \E i \in 1..Len(Uppers) : Uppers[i] = c
    THEN Lowers[CHOOSE i \in 1..Len(Uppers) : Uppers[i] = c]
    ELSE c

LowerStr(s) == [i \in 1..Len(s) |-> LowerChar(s[i])]

\* s[a..b] as a sequence (empty when a > b)
Slice(s, a, b) == IF a > b THEN <<>> ELSE SubSeq(s, a, b)

\* str.strip(): leading and trailing whitespace removed
Strip(s) ==
    LET nonsp == {i \in 1..Len(s) : ~IsSpace(s[i])}
    IN  IF nonsp = {} THEN <<>>
        ELSE LET lo == CHOOSE i \in nonsp : \A j \in nonsp : i <= j
                 hi == CHOOSE i \in nonsp : \A j \in nonsp : i >= j
             IN  SubSeq(s, lo, hi)

\* s starts, at position p, with the literal lit (compared case-insensitively)
StartsAtCI(s, p, lit) ==
    /\ p + Len(lit) - 1 <= Len(s)
    /\ \A k \in 1..Len(lit) : LowerChar(s[p + k - 1]) = lit[k]

\* positions of the characters of s that belong to the set cs
Positions(s, cs) == {i \in 1..Len(s) : s[i] \in cs}
SetMin(S) == CHOOSE x \in S : \A y \in S : x <= y
SetMax(S) == CHOOSE x \in S : \A y \in S : x >= y

-----------------------------------------------------------------------------
(* Results of calls that may raise *)

Msg(text) == [text |-> text, status |-> PyNone, detail |-> PyNone]
Ok(v) == [ok |-> TRUE, value |-> v, exc |-> "", msg |-> Msg(""), cause |-> ""]
Raise(exc, text) == [ok |-> FALSE, value |-> PyNone, exc |-> exc, msg |-> Msg(text), cause |-> ""]

\* the exception classes and their direct base class
BaseOf(exc) ==
    CASE exc = "AuthenticationError" -> "APIError"
      [] exc = "APIError" -> "Exception"
      [] exc = "ValueError" -> "Exception"
      [] exc = "pydantic.ValidationError" -> "ValueError"
      [] exc = "validators.ValidationError" -> "Exception"
      [] exc = "FileNotFoundError" -> "OSError"
      [] exc = "OSError" -> "Exception"
      [] exc = "json.JSONDecodeError" -> "ValueError"
      [] exc = "UnicodeDecodeError" -> "ValueError"
      [] OTHER -> "BaseException"

\* isinstance(exc, cls)
IsA(exc, cls) ==
    \/ exc = cls
    \/ BaseOf(exc) = cls
    \/ BaseOf(BaseOf(exc)) = cls
    \/ BaseOf(BaseOf(BaseOf(exc))) = cls

-----------------------------------------------------------------------------
(* URL_REGEX, matched with pattern.match (anchored at the start only),      *)
(* re.IGNORECASE | re.UNICODE                                              *)

\* (?:http|ftp)s?://  -- the positions right after a scheme match
SchemeEnds(s) ==
    {p \in 1..(Len(s) + 1) :
        \/ p = 8 /\ StartsAtCI(s, 1, <<"h", "t", "t", "p", ":", "/", "/">>)
        \/ p = 9 /\ StartsAtCI(s, 1, <<"h", "t", "t", "p", "s", ":", "/", "/">>)
        \/ p = 7 /\ StartsAtCI(s, 1, <<"f", "t", "p", ":", "/", "/">>)
        \/ p = 8 /\ StartsAtCI(s, 1, <<"f", "t", "p", "s", ":", "/", "/">>)}

\* (?:\S+(?::\S*)?@)?  -- the positions right after an optional user:pass@
UserinfoEnds(s, a) ==
    {a} \cup {q \in (a + 2)..(Len(s) + 1) :
                /\ s[q - 1] = "@"
                /\ \A k \in a..(q - 2) : ~IsSpace(s[k])}

\* [-\w\u00a1-\uffff]
LabelChar(c) == c \in Letters \cup Digits \cup {"-", "_"}

\* [-\w\u00a1-\uffff]{0,63}[^-_]\.  -- the positions right after one label group
GroupEnds(s, p) ==
    {q \in (p + 2)..(Len(s) + 1) :
        /\ s[q - 1] = "."
        /\ s[q - 2] \notin {"-", "_"}
        /\ q - 2 - p <= 63
        /\ \A k \in p..(q - 3) : LabelChar(s[k])}

\* (?:[a-z\u00a1-\uffff]{2,}\.?)  -- a tld of two letters or more starts at p
TldAt(s, p) == p + 1 <= Len(s) /\ s[p] \in Letters /\ s[p + 1] \in Letters

\* (?:group)+ tld, the first group already consumed
RECURSIVE DomainRest(_, _)
DomainRest(s, p) ==
    \/ TldAt(s, p)
    \/ \E q \in GroupEnds(s, p) : DomainRest(s, q)

\* pattern.match(s) is not None; the optional path (?:[/?#]\S*)? never decides it
RegexMatch(s) ==
    \E a \in SchemeEnds(s) : \E b \in UserinfoEnds(s, a) :
        /\ b <= Len(s)
        /\ s[b] \notin {"-", "_"}
        /\ \E q \in GroupEnds(s, b) : DomainRest(s, q)

-----------------------------------------------------------------------------
(* pydantic.HttpUrl(url) and str() of it: the URL parsed and re-rendered.   *)
(* Covered: trimming, scheme restricted to http/https, scheme and host      *)
(* lower-cased, user info kept, default port dropped, "/" added to an       *)
(* empty path, spaces of the path percent-encoded.                          *)

HostForbidden == {" ", "#", "%", "/", ":", "<", ">", "?", "@", "[", "]", "^", "|"}

\* the url crate drops tabs and newlines anywhere in the input
DropTabNl(s) == SelectSeq(s, LAMBDA c : c \notin {"\t", "\n"})

RECURSIVE PercentEncodeSpaces(_)
PercentEncodeSpaces(s) ==
    IF s = <<>> THEN <<>>
    ELSE (IF Head(s) = " " THEN <<"%", "2", "0">> ELSE <<Head(s)>>)
         \o PercentEncodeSpaces(Tail(s))

FirstOf(S, default) == IF S = {} THEN default ELSE SetMin(S)
LastOf(S, default) == IF S = {} THEN default ELSE SetMax(S)

\* the authority of s starts after the slashes that follow the colon at c, and
\* ends before the first "/", "?" or "#"; the host follows the last "@" and ends
\* before the last ":" of the authority
AuthStart(s, c) == FirstOf({i \in (c + 1)..Len(s) : s[i] # "/"}, Len(s) + 1)
AuthEnd(s, start) == FirstOf({i \in start..Len(s) : s[i] \in {"/", "?", "#"}}, Len(s) + 1)
HostStart(s, start, authEnd) == LastOf({i \in start..(authEnd - 1) : s[i] = "@"}, start - 1) + 1
HostEnd(s, hostStart, authEnd) ==
    LastOf({i \in hostStart..(authEnd - 1) : s[i] = ":"}, authEnd) - 1

UrlParts5(s, c, start, authEnd, hostStart, hostEnd) ==
    [scheme |-> LowerStr(Slice(s, 1, c - 1)),
     userinfo |-> Slice(s, start, hostStart - 1),
     host |-> LowerStr(Slice(s, hostStart, hostEnd)),
     port |-> Slice(s, hostEnd + 2, authEnd - 1),
     rest |-> Slice(s, authEnd, Len(s))]
UrlParts4(s, c, start, authEnd, hostStart) ==
    UrlParts5(s, c, start, authEnd, hostStart, HostEnd(s, hostStart, authEnd))
UrlParts3(s, c, start, authEnd) ==
    UrlParts4(s, c, start, authEnd, HostStart(s, start, authEnd))
UrlParts2(s, c, start) == UrlParts3(s, c, start, AuthEnd(s, start))
UrlParts1(s, c) == UrlParts2(s, c, AuthStart(s, c))
\* the parts of a URL that has a colon
UrlParts(s) == UrlParts1(s, SetMin(Positions(s, {":"})))

SchemeHttp == <<"h", "t", "t", "p">>
SchemeHttps == <<"h", "t", "t", "p", "s">>

DefaultPort(p) ==
    \/ p.port = <<>>
    \/ p.scheme = SchemeHttp /\ p.port = <<"8", "0">>
    \/ p.scheme = SchemeHttps /\ p.port = <<"4", "4", "3">>

\* the path and what follows it, "/" added when the path is empty
PathOf(rest) ==
    IF rest = <<>> THEN <<"/">>
    ELSE IF rest[1] \in {"?", "#"} THEN <<"/">> \o rest
    ELSE rest

HttpUrlRender(p) ==
    IF p.scheme \notin {SchemeHttp, SchemeHttps}
    THEN Raise("pydantic.ValidationError", "URL scheme should be 'http' or 'https'")
    ELSE IF p.host = <<>>
    THEN Raise("pydantic.ValidationError", "empty host")
    ELSE IF \E i \in 1..Len(p.host) : p.host[i] \in HostForbidden
    THEN Raise("pydantic.ValidationError", "invalid domain character")
    ELSE IF \E i \in 1..Len(p.port) : p.port[i] \notin Digits
    THEN Raise("pydantic.ValidationError", "invalid port number")
    ELSE Ok(p.scheme \o <<":", "/", "/">> \o p.userinfo \o p.host
            \o (IF DefaultPort(p) THEN <<>> ELSE <<":">> \o p.port)
            \o PercentEncodeSpaces(PathOf(p.rest)))

HttpUrlOf(s) ==
    IF Positions(s, {":"}) = {}
    THEN Raise("pydantic.ValidationError", "relative URL without a base")
    ELSE HttpUrlRender(UrlParts(s))

HttpUrl(url) == HttpUrlOf(Strip(DropTabNl(url)))

\* validators.url(value) accepts value; with RAISE_VALIDATION_ERROR set it raises
\* otherwise.  Covered: no whitespace, and a host made of dot-separated labels of
\* letters, digits and inner hyphens.
ValidatorsHostOk(host) ==
    /\ host # <<>>
    /\ \A i \in 1..Len(host) : host[i] \in Letters \cup Digits \cup {"-", "."}
    /\ host[1] \notin {"-", "."}
    /\ host[Len(host)] # "-"
    /\ \A i \in 1..(Len(host) - 1) :
          /\ ~(host[i] = "." /\ host[i + 1] \in {".", "-"})
          /\ ~(host[i] = "-" /\ host[i + 1] = ".")

ValidatorsUrlOk(u) ==
    /\ \A i \in 1..Len(u) : ~IsSpace(u[i])
    /\ ValidatorsHostOk(UrlParts(u).host)

-----------------------------------------------------------------------------
(* os.environ and temp_env_var *)

RAISE_KEY == "RAISE_VALIDATION_ERROR"

EnvSet(env, key, val) == [k \in DOMAIN env \cup {key} |-> IF k = key THEN val ELSE env[k]]
EnvDel(env, key) == [k \in DOMAIN env \ {key} |-> env[k]]

\* temp_env_var(key, value) entered and left: original_value = os.getenv(key),
\* os.environ[key] = value, the body, then the finally clause
TempEnvVarEnter(env, key, value) == EnvSet(env, key, value)
TempEnvVarExit(env, key, hadOriginal, original) ==
    IF hadOriginal THEN EnvSet(env, key, original) ELSE EnvDel(env, key)
TempEnvVar(env, key, value) ==
    TempEnvVarExit(TempEnvVarEnter(env, key, value), key,
                   key \in DOMAIN env, IF key \in DOMAIN env THEN env[key] ELSE "")

-----------------------------------------------------------------------------
(* validate_url *)

\* a variant of the end of validate_url in which validators.url never raises
ValidateNormalizedLenient(validated) == validated

\* the part of validate_url after HttpUrl(url): validators.url on str(validated)
ValidateNormalized(validated) ==
    IF ~validated.ok THEN validated
    ELSE IF ~ValidatorsUrlOk(validated.value)
    THEN Raise("validators.ValidationError", "url")
    ELSE Ok(validated.value)

ValidateUrl(url) ==
    IF Len(url) = 0 \/ Strip(url) = <<>>
    THEN Raise("ValueError", "URL cannot be empty")
    ELSE IF ~RegexMatch(Strip(url))
    THEN Raise("ValueError", "URL does not match expected url regex")
    ELSE ValidateNormalized(HttpUrl(url))

\* os.environ after validate_url(url): the with block is entered only once the
\* regex and HttpUrl have accepted the URL
ValidateUrlEnv(url, env) ==
    IF Len(url) = 0 \/ Strip(url) = <<>> \/ ~RegexMatch(Strip(url)) \/ ~HttpUrl(url).ok
    THEN env
    ELSE TempEnvVar(env, RAISE_KEY, "True")

-----------------------------------------------------------------------------
(* String literals of the models and the operations *)

S_link == <<"l", "i", "n", "k">>
S_text == <<"t", "e", "x", "t">>
S_asset == <<"a", "s", "s", "e", "t">>
S_unknown == <<"u", "n", "k", "n", "o", "w", "n">>
S_image == <<"i", "m", "a", "g", "e">>
S_pdf == <<"p", "d", "f">>
S_success == <<"s", "u", "c", "c", "e", "s", "s">>
S_failure == <<"f", "a", "i", "l", "u", "r", "e">>
S_pending == <<"p", "e", "n", "d", "i", "n", "g">>
S_ai == <<"a", "i">>
S_human == <<"h", "u", "m", "a", "n">>
S_linkHtmlContent == <<"l", "i", "n", "k", "H", "t", "m", "l", "C", "o", "n", "t", "e", "n", "t">>
S_screenshot == <<"s", "c", "r", "e", "e", "n", "s", "h", "o", "t">>
S_assetScreenshot == <<"a", "s", "s", "e", "t", "S", "c", "r", "e", "e", "n", "s", "h", "o", "t">>
S_bannerImage == <<"b", "a", "n", "n", "e", "r", "I", "m", "a", "g", "e">>
S_fullPageArchive == <<"f", "u", "l", "l", "P", "a", "g", "e", "A", "r", "c", "h", "i", "v", "e">>
S_video == <<"v", "i", "d", "e", "o">>
S_bookmarkAsset == <<"b", "o", "o", "k", "m", "a", "r", "k", "A", "s", "s", "e", "t">>
S_precrawledArchive == <<"p", "r", "e", "c", "r", "a", "w", "l", "e", "d", "A", "r", "c", "h", "i", "v", "e">>

-----------------------------------------------------------------------------
(* models.py: pydantic models as field tables.  A field has its attribute   *)
(* name, its alias (the wire key), a kind, whether None is accepted, whether *)
(* it is required (no default), its default, and for a Literal its values.   *)
(* populate_by_name=True: input is accepted under the alias or the name.     *)

Field(name, alias, kind, nullable, required, default, lits) ==
    [name |-> name, alias |-> alias, kind |-> kind, nullable |-> nullable,
     required |-> required, default |-> default, lits |-> lits]

\* x: T
Req(name, alias, kind) == Field(name, alias, kind, FALSE, TRUE, PyNone, {})
\* x: Optional[T] = Field(alias=...)   (no default: the key is required, null allowed)
ReqNullable(name, alias, kind, lits) == Field(name, alias, kind, TRUE, TRUE, PyNone, lits)
\* x: Optional[T] = None
Opt(name, alias, kind) == Field(name, alias, kind, TRUE, FALSE, PyNone, {})
\* x: Literal[...]  (required)
ReqLit(name, alias, lits) == Field(name, alias, "literal", FALSE, TRUE, PyNone, lits)
\* x: Literal[...] = default
DefLit(name, alias, lits, default) ==
    Field(name, alias, "literal", FALSE, FALSE, PyStr(default), lits)

TagShortFields == <<
    Req("id", "id", "str"),
    Req("name", "name", "str"),
    ReqLit("attached_by", "attachedBy", {S_ai, S_human}) >>

ContentTypeLinkFields == <<
    DefLit("type", "type", {S_link}, S_link),
    Req("url", "url", "str"),
    Opt("title", "title", "str"),
    Opt("description", "description", "str"),
    Opt("image_url", "imageUrl", "str"),
    Opt("image_asset_id", "imageAssetId", "str"),
    Opt("screenshot_asset_id", "screenshotAssetId", "str"),
    Opt("full_page_archive_asset_id", "fullPageArchiveAssetId", "str"),
    Opt("precrawled_archive_asset_id", "precrawledArchiveAssetId", "str"),
    Opt("video_asset_id", "videoAssetId", "str"),
    Opt("favicon", "favicon", "str"),
    Opt("html_content", "htmlContent", "str"),
    Opt("content_asset_id", "contentAssetId", "str"),
    Opt("crawled_at", "crawledAt", "str"),
    Opt("author", "author", "str"),
    Opt("publisher", "publisher", "str"),
    Opt("date_published", "datePublished", "str"),
    Opt("date_modified", "dateModified", "str") >>

\* a variant of ContentTypeUnknown with type: str = "unknown"
ContentTypeUnknownFieldsAnyType == <<
    Opt("type", "type", "str") >>

ContentTypeUnknownFields == <<
    DefLit("type", "type", {S_unknown}, S_unknown) >>

ContentTypeTextFields == <<
    DefLit("type", "type", {S_text}, S_text),
    Req("text", "text", "str"),
    Opt("source_url", "sourceUrl", "str") >>

ContentTypeAssetFields == <<
    DefLit("type", "type", {S_asset}, S_asset),
    ReqLit("asset_type", "assetType", {S_image, S_pdf}),
    Req("asset_id", "assetId", "str"),
    Opt("file_name", "fileName", "str"),
    Opt("source_url", "sourceUrl", "str"),
    Opt("size", "size", "float"),
    Opt("content", "content", "str") >>

BookmarkAssetTypes ==
    {S_linkHtmlContent, S_screenshot, S_assetScreenshot, S_bannerImage, S_fullPageArchive,
     S_video, S_bookmarkAsset, S_precrawledArchive, S_unknown}

BookmarkAssetFields == <<
    Req("id", "id", "str"),
    ReqLit("asset_type", "assetType", BookmarkAssetTypes) >>

AssetFields == <<
    Req("asset_id", "assetId", "str"),
    Req("content_type", "contentType", "str"),
    Req("size", "size", "float"),
    Req("file_name", "fileName", "str") >>

StatusLits == {S_success, S_failure, S_pending}

\* the scalar fields of Bookmark; tags, content and assets are validated as nested models
BookmarkFields == <<
    Req("id", "id", "str"),
    Req("created_at", "createdAt", "str"),
    ReqNullable("modified_at", "modifiedAt", "str", {}),
    Opt("title", "title", "str"),
    Req("archived", "archived", "bool"),
    Req("favourited", "favourited", "bool"),
    ReqNullable("tagging_status", "taggingStatus", "literal", StatusLits),
    Field("summarization_status", "summarizationStatus", "literal", TRUE, FALSE, PyNone, StatusLits),
    Opt("note", "note", "str"),
    Opt("summary", "summary", "str") >>

\* a variant of PaginatedBookmarks with next_cursor: Optional[str] = Field(default=None, alias="nextCursor")
PaginatedBookmarksFieldsOptionalCursor == <<
    Opt("next_cursor", "nextCursor", "str") >>

PaginatedBookmarksFields == <<
    ReqNullable("next_cursor", "nextCursor", "str", {}) >>

-----------------------------------------------------------------------------
(* model_validate *)

\* the input key a field is read from: the alias first, else the attribute name
Present(d, f) == Has(d, f.alias) \/ Has(d, f.name)
Input(d, f) == IF Has(d, f.alias) THEN d[f.alias] ELSE d[f.name]

ScalarOk(f, x) ==
    \/ f.nullable /\ IsNone(x)
    \/ f.kind = "str" /\ IsStr(x)
    \/ f.kind = "bool" /\ x.t = "bool"
    \/ f.kind = "float" /\ x.t \in {"int", "float"}
    \/ f.kind = "literal" /\ IsStr(x) /\ x.v \in f.lits

FieldOk(d, f) == IF Present(d, f) THEN ScalarOk(f, Input(d, f)) ELSE ~f.required
\* a float field takes an int as the float of the same value
Coerced(f, x) == IF f.kind = "float" /\ x.t = "int" THEN PyFloat(x.v) ELSE x
FieldValue(d, f) == IF Present(d, f) THEN Coerced(f, Input(d, f)) ELSE f.default

FieldNames(fields) == {fields[i].name : i \in 1..Len(fields)}
FieldNamed(fields, n) == fields[CHOOSE i \in 1..Len(fields) : fields[i].name = n]

\* every field of the table validates against the dict d (extra keys are ignored)
FieldsOk(fields, d) == \A i \in 1..Len(fields) : FieldOk(d, fields[i])
\* the validated attributes, by attribute name
Attrs(fields, d) == [n \in FieldNames(fields) |-> FieldValue(d, FieldNamed(fields, n))]
\* model_fields_set: how many fields the input gave explicitly
FieldsSet(fields, d) == Cardinality({i \in 1..Len(fields) : Present(d, fields[i])})

ModelOk(fields, x) == IsDict(x) /\ FieldsOk(fields, x.v)

\* a validated model instance
Model(cls, attrs) == [t |-> "model", cls |-> cls, v |-> attrs]
SchemaError(cls) == Raise("pydantic.ValidationError", cls)

\* List[M]: x is a list whose every element validates against the field table
ListOk(fields, x) == IsList(x) /\ \A i \in 1..Len(x.v) : ModelOk(fields, x.v[i])
ModelList(cls, fields, x) == PyList([i \in 1..Len(x.v) |-> Model(cls, Attrs(fields, x.v[i].v))])

\* content: Union[ContentTypeLink, ContentTypeText, ContentTypeAsset, ContentTypeUnknown]
\* (a smart-mode union, in declaration order)
ContentVariants == <<
    [cls |-> "ContentTypeLink", fields |-> ContentTypeLinkFields],
    [cls |-> "ContentTypeText", fields |-> ContentTypeTextFields],
    [cls |-> "ContentTypeAsset", fields |-> ContentTypeAssetFields],
    [cls |-> "ContentTypeUnknown", fields |-> ContentTypeUnknownFields] >>

\* the members of the union that accept x
ContentMatches(x) == {i \in 1..Len(ContentVariants) : ModelOk(ContentVariants[i].fields, x)}

\* a variant of the union that takes the last declared member that accepts x
ContentChoiceLastDeclared(x) == SetMax(ContentMatches(x))

\* smart mode: among the members that accept x, the one with the most fields set,
\* the earliest declared on a tie
ContentChoice(x) ==
    CHOOSE i \in ContentMatches(x) : \A j \in ContentMatches(x) :
        LET fi == FieldsSet(ContentVariants[i].fields, x.v)
            fj == FieldsSet(ContentVariants[j].fields, x.v)
        IN  fi > fj \/ (fi = fj /\ i <= j)

ContentOk(x) == ContentMatches(x) # {}
ContentModel(x) ==
    LET c == ContentVariants[ContentChoice(x)] IN Model(c.cls, Attrs(c.fields, x.v))

\* Bookmark.model_validate(x)
BookmarkOk(x) ==
    /\ IsDict(x)
    /\ FieldsOk(BookmarkFields, x.v)
    /\ Has(x.v, "tags") /\ ListOk(TagShortFields, x.v.tags)
    /\ Has(x.v, "content") /\ ContentOk(x.v.content)
    /\ Has(x.v, "assets") /\ ListOk(BookmarkAssetFields, x.v.assets)

BookmarkModel(x) ==
    Model("Bookmark",
          Attrs(BookmarkFields, x.v) @@
          [tags |-> ModelList("TagShort", TagShortFields, x.v.tags),
           content |-> ContentModel(x.v.content),
           assets |-> ModelList("BookmarkAsset", BookmarkAssetFields, x.v.assets)])

ValidateBookmark(x) == IF BookmarkOk(x) THEN Ok(BookmarkModel(x)) ELSE SchemaError("Bookmark")

\* PaginatedBookmarks.model_validate(x)
PaginatedBookmarksOk(x) ==
    /\ IsDict(x)
    /\ FieldsOk(PaginatedBookmarksFields, x.v)
    /\ Has(x.v, "bookmarks") /\ IsList(x.v.bookmarks)
    /\ \A i \in 1..Len(x.v.bookmarks.v) : BookmarkOk(x.v.bookmarks.v[i])

PaginatedBookmarksModel(x) ==
    Model("PaginatedBookmarks",
          Attrs(PaginatedBookmarksFields, x.v) @@
          [bookmarks |-> PyList([i \in 1..Len(x.v.bookmarks.v) |->
                                    BookmarkModel(x.v.bookmarks.v[i])])])

ValidatePaginatedBookmarks(x) ==
    IF PaginatedBookmarksOk(x) THEN Ok(PaginatedBookmarksModel(x))
    ELSE SchemaError("PaginatedBookmarks")

\* BookmarkAsset.model_validate(x), Asset.model_validate(x)
ValidateBookmarkAsset(x) ==
    IF ModelOk(BookmarkAssetFields, x)
    THEN Ok(Model("BookmarkAsset", Attrs(BookmarkAssetFields, x.v)))
    ELSE SchemaError("BookmarkAsset")

ValidateAsset(x) ==
    IF ModelOk(AssetFields, x)
    THEN Ok(Model("Asset", Attrs(AssetFields, x.v)))
    ELSE SchemaError("Asset")

-----------------------------------------------------------------------------
(* model_dump and model_validate of the models the operations return *)

\* the scalar fields each class declares
ClassFields(cls) ==
    CASE cls = "TagShort" -> TagShortFields
      [] cls = "ContentTypeLink" -> ContentTypeLinkFields
      [] cls = "ContentTypeUnknown" -> ContentTypeUnknownFields
      [] cls = "ContentTypeText" -> ContentTypeTextFields
      [] cls = "ContentTypeAsset" -> ContentTypeAssetFields
      [] cls = "BookmarkAsset" -> BookmarkAssetFields
      [] cls = "Asset" -> AssetFields
      [] cls = "Bookmark" -> BookmarkFields
      [] cls = "PaginatedBookmarks" -> PaginatedBookmarksFields

\* the alias of an attribute; tags, content, assets and bookmarks have none
AliasOf(cls, name) ==
    IF name \in FieldNames(ClassFields(cls)) THEN FieldNamed(ClassFields(cls), name).alias
    ELSE name

\* a variant of the key of an attribute in a dump: the alias, whatever by_alias is
DumpKeyAlways(cls, name, by_alias) == AliasOf(cls, name)

\* the key of an attribute in a dump: its alias with by_alias=True, else its name
DumpKey(cls, name, by_alias) == IF by_alias THEN AliasOf(cls, name) ELSE name

\* self.model_dump(by_alias=by_alias): a dict of every attribute, nested models
\* and lists of models dumped the same way
RECURSIVE ModelDump(_, _)
ModelDump(x, by_alias) ==
    CASE x.t = "model" ->
            LET keys == {DumpKey(x.cls, n, by_alias) : n \in DOMAIN x.v}
                attr(k) == CHOOSE n \in DOMAIN x.v : DumpKey(x.cls, n, by_alias) = k
            IN  PyDict([k \in keys |-> ModelDump(x.v[attr(k)], by_alias)])
      [] x.t = "list" -> PyList([i \in 1..Len(x.v) |-> ModelDump(x.v[i], by_alias)])
      [] OTHER -> x

\* cls.model_validate(x) for the classes the operations return
ModelValidate(cls, x) ==
    CASE cls = "Bookmark" -> ValidateBookmark(x)
      [] cls = "PaginatedBookmarks" -> ValidatePaginatedBookmarks(x)
      [] cls = "BookmarkAsset" -> ValidateBookmarkAsset(x)
      [] cls = "Asset" -> ValidateAsset(x)

-----------------------------------------------------------------------------
(* _extract_url_from_bookmark *)

ExtractUrlFromBookmark(bookmark) ==
    IF "content" \notin DOMAIN bookmark.v THEN PyNone
    ELSE LET content == bookmark.v.content
             content_type == Get(content.v, "type")
         IN  IF content_type = PyStr(S_link) THEN Get(content.v, "url")
             ELSE IF content_type \in {PyStr(S_asset), PyStr(S_text)}
                  THEN Get(content.v, "source_url")
             ELSE PyNone

-----------------------------------------------------------------------------
(* KarakeepClient.__init__ *)

\* a variant of `a or b` that takes b whenever b is truthy
OrElseSecond(a, b) == IF Truthy(b) THEN b ELSE a

\* `a or b` over configuration strings ("" is falsy)
OrElse(a, b) == IF Truthy(a) THEN a ELSE b
\* os.environ.get(key)
EnvGet(env, key) == IF key \in DOMAIN env THEN PyStr(env[key]) ELSE PyNone

DefaultHeaders(api_key) ==
    ("Content-Type" :> <<"application/json">>) @@
    ("Accept" :> <<"application/json">>) @@
    ("Authorization" :> <<"Bearer", api_key>>)

ClientInit(api_key, base_url, timeout, verbose, env) ==
    LET key == OrElse(api_key, EnvGet(env, "KARAKEEP_API_KEY"))
        base == OrElse(base_url, EnvGet(env, "KARAKEEP_BASEURL"))
    IN  IF ~Truthy(key)
        THEN Raise("ValueError", "API key must be provided or set in KARAKEEP_API_KEY environment variable")
        ELSE IF ~Truthy(base)
        THEN Raise("ValueError", "Base URL must be provided or set in KARAKEEP_BASEURL environment variable")
        ELSE Ok([api_key |-> key,
                 base_url |-> base,
                 api_base_url |-> <<base, "/api/v1/">>,
                 timeout |-> timeout,
                 verbose |-> verbose,
                 default_headers |-> DefaultHeaders(key)])

-----------------------------------------------------------------------------
(* KarakeepClient._call: the request it sends, and what it makes of the      *)
(* response                                                                  *)

Endpoint(path, ids) == [path |-> path, ids |-> ids]

\* a variant of the cleaning of params that keeps the truthy values only
CleanParamsTruthy(params) ==
    IF Truthy(params)
    THEN PyDict([k \in {k \in DOMAIN params.v : Truthy(params.v[k])} |-> params.v[k]])
    ELSE params

\* {k: v for k, v in params.items() if v is not None}
CleanParams(params) ==
    IF Truthy(params)
    THEN PyDict([k \in {k \in DOMAIN params.v : ~IsNone(params.v[k])} |-> params.v[k]])
    ELSE params

\* a variant of the headers that pops Content-Type before it merges extra_headers
CallHeadersPopFirst(c, files, extra_headers) ==
    LET kept == IF Truthy(files)
                THEN [h \in DOMAIN c.default_headers \ {"Content-Type"} |-> c.default_headers[h]]
                ELSE c.default_headers
    IN  IF Truthy(extra_headers) THEN extra_headers.v @@ kept ELSE kept

CallHeaders(c, files, extra_headers) ==
    LET merged == IF Truthy(extra_headers) THEN extra_headers.v @@ c.default_headers
                  ELSE c.default_headers
    IN  IF Truthy(files)
        THEN [h \in DOMAIN merged \ {"Content-Type"} |-> merged[h]]
        ELSE merged

\* a variant in which headers is self._default_headers itself
HeadersCopyShared(c) == [shared |-> TRUE, v |-> c.default_headers]

\* headers = self._default_headers.copy(): a dict of its own
HeadersCopy(c) == [shared |-> FALSE, v |-> c.default_headers]

\* the client once _call has built its headers: update and pop act on headers,
\* and on self._default_headers only if that is the same dict
ClientAfterCall(c, files, extra_headers) ==
    IF HeadersCopy(c).shared
    THEN [c EXCEPT !.default_headers = CallHeaders(c, files, extra_headers)]
    ELSE c

CallRequest(c, method, endpoint, params, data, files, extra_headers) ==
    [method |-> method,
     url |-> [base |-> c.api_base_url, endpoint |-> endpoint],
     params |-> CleanParams(params),
     json |-> IF Truthy(data) /\ ~Truthy(files) THEN data ELSE PyNone,
     files |-> files,
     headers |-> CallHeaders(c, files, extra_headers),
     timeout |-> c.timeout]

\* a response of the service: a network failure (httpx.RequestError), or a status
\* with a body; the body has its raw content and what response.json() makes of it
\* (decodes), and whether the content is UTF-8 text at all (utf8)
NetworkError ==
    [neterr |-> TRUE, status |-> 0, raw |-> <<>>, decodes |-> FALSE, utf8 |-> TRUE, json |-> PyNone]
Response(status, body) ==
    [neterr |-> FALSE, status |-> status, raw |-> body.raw, decodes |-> body.decodes,
     utf8 |-> body.utf8, json |-> body.json]

\* response.json(): json.loads of the content.  Text that is not JSON raises
\* json.JSONDecodeError; content that is not UTF-8 raises UnicodeDecodeError,
\* which is a ValueError but no JSONDecodeError
ResponseJson(resp) ==
    IF resp.decodes THEN Ok(resp.json)
    ELSE IF resp.utf8 THEN Raise("json.JSONDecodeError", "Expecting value")
    ELSE Raise("UnicodeDecodeError", "'utf-8' codec can't decode byte")

HTTP_UNAUTHORIZED == 401
HTTP_NO_CONTENT == 204
IsSuccess(status) == 200 <= status /\ status <= 299

ApiError(text, status, detail, cause) ==
    [ok |-> FALSE, value |-> PyNone, exc |-> "APIError",
     msg |-> [text |-> text, status |-> status, detail |-> detail], cause |-> cause]

\* except httpx.HTTPStatusError: the message carries e.response.json(), or
\* e.response.text on a JSONDecodeError; another exception of json() leaves _call
HttpStatusError(resp) ==
    LET error_detail == ResponseJson(resp)
    IN  IF error_detail.ok
        THEN ApiError("HTTP error", PyInt(resp.status), error_detail.value, "httpx.HTTPStatusError")
        ELSE IF error_detail.exc = "json.JSONDecodeError"
        THEN ApiError("HTTP error", PyInt(resp.status), PyStr(resp.raw), "httpx.HTTPStatusError")
        ELSE error_detail

\* try: return response.json()  except json.JSONDecodeError: return response.content
JsonOrContent(resp) ==
    LET parsed == ResponseJson(resp)
    IN  IF parsed.ok THEN parsed
        ELSE IF parsed.exc = "json.JSONDecodeError" THEN Ok(PyBytes(resp.raw))
        ELSE parsed

\* a variant of _call without the 401 branch: raise_for_status handles a 401
CallResultWithout401(extra_headers, resp) ==
    IF resp.neterr
    THEN ApiError("Request failed", PyNone, PyNone, "httpx.RequestError")
    ELSE IF resp.status = HTTP_NO_CONTENT
    THEN Ok(PyDict(EmptyMap))
    ELSE IF ~IsSuccess(resp.status)
    THEN HttpStatusError(resp)
    ELSE JsonOrContent(resp)

\* a variant of _call that parses the content whatever the Accept header
CallResultParsingAlways(extra_headers, resp) ==
    IF resp.neterr
    THEN ApiError("Request failed", PyNone, PyNone, "httpx.RequestError")
    ELSE IF resp.status = HTTP_UNAUTHORIZED
    THEN Raise("AuthenticationError", "Authentication failed - check API key")
    ELSE IF resp.status = HTTP_NO_CONTENT
    THEN Ok(PyDict(EmptyMap))
    ELSE IF ~IsSuccess(resp.status)
    THEN HttpStatusError(resp)
    ELSE JsonOrContent(resp)


\* a variant of _call that raises the APIError of a RequestError without `from e`
CallResultUnchained(extra_headers, resp) ==
    IF resp.neterr
    THEN ApiError("Request failed", PyNone, PyNone, "")
    ELSE IF resp.status = HTTP_UNAUTHORIZED
    THEN Raise("AuthenticationError", "Authentication failed - check API key")
    ELSE IF resp.status = HTTP_NO_CONTENT
    THEN Ok(PyDict(EmptyMap))
    ELSE IF ~IsSuccess(resp.status)
    THEN HttpStatusError(resp)
    ELSE IF Truthy(extra_headers) /\ Has(extra_headers.v, "Accept")
              /\ extra_headers.v["Accept"] = <<"*/*">>
    THEN Ok(PyBytes(resp.raw))
    ELSE JsonOrContent(resp)

CallResult(extra_headers, resp) ==
    IF resp.neterr
    THEN ApiError("Request failed", PyNone, PyNone, "httpx.RequestError")
    ELSE IF resp.status = HTTP_UNAUTHORIZED
    THEN Raise("AuthenticationError", "Authentication failed - check API key")
    ELSE IF resp.status = HTTP_NO_CONTENT
    THEN Ok(PyDict(EmptyMap))
    ELSE IF ~IsSuccess(resp.status)
    THEN HttpStatusError(resp)
    ELSE IF Truthy(extra_headers) /\ Has(extra_headers.v, "Accept")
              /\ extra_headers.v["Accept"] = <<"*/*">>
    THEN Ok(PyBytes(resp.raw))
    ELSE JsonOrContent(resp)

-----------------------------------------------------------------------------
(* Resource operations.  Each operation is given by what it does before its  *)
(* await (fail locally, or send one request through _call) and by what it    *)
(* makes of the response.                                                    *)

NoRequest == [method |-> "", url |-> [base |-> <<>>, endpoint |-> Endpoint("", <<>>)],
              params |-> PyNone, json |-> PyNone, files |-> PyNone,
              headers |-> <<>>, timeout |-> 0]
NoResult == [ok |-> FALSE, value |-> PyNone, exc |-> "", msg |-> Msg(""), cause |-> ""]

Fail(r) == [sends |-> FALSE, result |-> r, request |-> NoRequest]
Send(req) == [sends |-> TRUE, result |-> NoResult, request |-> req]

MAX_LIMIT == 100

\* get_bookmarks_paged
GetBookmarksPagedStart(c, a) ==
    IF ~IsNone(a.limit) /\ a.limit.v > MAX_LIMIT
    THEN Fail(Raise("ValueError", "Maximum limit is 100"))
    ELSE Send(CallRequest(c, "GET", Endpoint("bookmarks", <<>>),
                          PyDict([archived |-> a.archived,
                                  favourited |-> a.favourited,
                                  sortOrder |-> a.sort_order,
                                  limit |-> a.limit,
                                  cursor |-> a.cursor,
                                  includeContent |-> a.include_content]),
                          PyNone, PyNone, PyNone))

GetBookmarksPagedFinish(resp) ==
    LET response_data == CallResult(PyNone, resp)
    IN  IF ~response_data.ok THEN response_data
        ELSE ValidatePaginatedBookmarks(response_data.value)

\* get_bookmark
GetBookmarkStart(c, a) ==
    Send(CallRequest(c, "GET", Endpoint("bookmarks/{}", <<a.bookmark_id>>),
                     PyDict([includeContent |-> a.include_content]),
                     PyNone, PyNone, PyNone))

GetBookmarkFinish(resp) ==
    LET response_data == CallResult(PyNone, resp)
    IN  IF ~response_data.ok THEN response_data
        ELSE ValidateBookmark(response_data.value)

\* search_bookmarks
\* a variant of search_bookmarks that sends whatever the limit
SearchBookmarksStartUnchecked(c, a) ==
    Send(CallRequest(c, "GET", Endpoint("bookmarks/search", <<>>),
                     PyDict([q |-> a.q,
                             sortOrder |-> a.sort_order,
                             limit |-> a.limit,
                             cursor |-> a.cursor,
                             includeContent |-> a.include_content]),
                     PyNone, PyNone, PyNone))

SearchBookmarksStart(c, a) ==
    IF ~IsNone(a.limit) /\ a.limit.v > MAX_LIMIT
    THEN Fail(Raise("ValueError", "Maximum limit is 100"))
    ELSE Send(CallRequest(c, "GET", Endpoint("bookmarks/search", <<>>),
                          PyDict([q |-> a.q,
                                  sortOrder |-> a.sort_order,
                                  limit |-> a.limit,
                                  cursor |-> a.cursor,
                                  includeContent |-> a.include_content]),
                          PyNone, PyNone, PyNone))

SearchBookmarksFinish(resp) ==
    LET response_data == CallResult(PyNone, resp)
    IN  IF ~response_data.ok THEN response_data
        ELSE ValidatePaginatedBookmarks(response_data.value)

\* a variant of the loop over the candidates that skips a bookmark whose URL
\* validate_url refuses
RECURSIVE FindExactMatchSkipping(_, _, _)
FindExactMatchSkipping(bookmarks, i, url) ==
    IF i > Len(bookmarks) THEN Ok(PyNone)
    ELSE LET bookmark_url == ExtractUrlFromBookmark(bookmarks[i])
         IN  IF ~Truthy(bookmark_url) THEN FindExactMatchSkipping(bookmarks, i + 1, url)
             ELSE LET v == ValidateUrl(Strip(bookmark_url.v))
                  IN  IF v.ok /\ v.value = url THEN Ok(bookmarks[i].v.id)
                      ELSE FindExactMatchSkipping(bookmarks, i + 1, url)


\* get_bookmark_id_by_url: the loop over the page, from bookmark i on.  An
\* exception of validate_url is caught by `except Exception` and ends the search.
RECURSIVE FindExactMatch(_, _, _)
FindExactMatch(bookmarks, i, url) ==
    IF i > Len(bookmarks) THEN Ok(PyNone)
    ELSE LET bookmark_url == ExtractUrlFromBookmark(bookmarks[i])
         IN  IF ~Truthy(bookmark_url) THEN FindExactMatch(bookmarks, i + 1, url)
             ELSE LET v == ValidateUrl(Strip(bookmark_url.v))
                  IN  IF ~v.ok THEN Ok(PyNone)
                      ELSE IF v.value = url THEN Ok(bookmarks[i].v.id)
                      ELSE FindExactMatch(bookmarks, i + 1, url)

SEARCH_LIMIT == 100

\* a variant of the start of get_bookmark_id_by_url without the check of a blank url
GetBookmarkIdByUrlStartValidating(c, a) ==
    LET url == ValidateUrl(Strip(a.url))
    IN  IF ~url.ok THEN Fail(url)
        ELSE LET started == SearchBookmarksStart(c,
                               [q |-> PyStr(Strip(url.value)), sort_order |-> PyNone,
                                limit |-> PyInt(SEARCH_LIMIT), cursor |-> PyNone,
                                include_content |-> PyBool(TRUE)])
             IN  IF started.sends THEN started ELSE Fail(Ok(PyNone))


GetBookmarkIdByUrlStart(c, a) ==
    IF ~Truthy(PyStr(a.url)) \/ ~Truthy(PyStr(Strip(a.url)))
    THEN Fail(Ok(PyNone))
    ELSE LET url == ValidateUrl(Strip(a.url))
         IN  IF ~url.ok THEN Fail(url)
             ELSE LET started == SearchBookmarksStart(c,
                                    [q |-> PyStr(Strip(url.value)), sort_order |-> PyNone,
                                     limit |-> PyInt(SEARCH_LIMIT), cursor |-> PyNone,
                                     include_content |-> PyBool(TRUE)])
                  IN  IF started.sends THEN started ELSE Fail(Ok(PyNone))

GetBookmarkIdByUrlFinish(a, resp) ==
    LET url == ValidateUrl(Strip(a.url)).value
        search_response == SearchBookmarksFinish(resp)
    IN  IF ~search_response.ok THEN Ok(PyNone)
        ELSE FindExactMatch(search_response.value.v.bookmarks.v, 1, url)

\* os.environ after the validate_url calls of the loop, up to the one that returns
RECURSIVE FindExactMatchEnv(_, _, _, _)
FindExactMatchEnv(bookmarks, i, url, env) ==
    IF i > Len(bookmarks) THEN env
    ELSE LET bookmark_url == ExtractUrlFromBookmark(bookmarks[i])
         IN  IF ~Truthy(bookmark_url) THEN FindExactMatchEnv(bookmarks, i + 1, url, env)
             ELSE LET v == ValidateUrl(Strip(bookmark_url.v))
                      env1 == ValidateUrlEnv(Strip(bookmark_url.v), env)
                  IN  IF ~v.ok \/ v.value = url THEN env1
                      ELSE FindExactMatchEnv(bookmarks, i + 1, url, env1)

GetBookmarkIdByUrlFinishEnv(a, resp, env) ==
    LET url == ValidateUrl(Strip(a.url)).value
        search_response == SearchBookmarksFinish(resp)
    IN  IF ~search_response.ok THEN env
        ELSE FindExactMatchEnv(search_response.value.v.bookmarks.v, 1, url, env)

\* _validate_bookmark_type_args: the error it raises, or Ok
\* a variant of _validate_bookmark_type_args that does not look at asset_id
ValidateBookmarkTypeArgsNoAssetId(a) ==
    IF a.bookmark_type = PyStr(S_link) /\ IsNone(a.url)
    THEN Raise("ValueError", "Argument 'url' is required when bookmark_type is 'link'.")
    ELSE IF a.bookmark_type = PyStr(S_text) /\ IsNone(a.text)
    THEN Raise("ValueError", "Argument 'text' is required when bookmark_type is 'text'.")
    ELSE IF a.bookmark_type = PyStr(S_asset) /\ IsNone(a.asset_type)
    THEN Raise("ValueError", "Argument 'asset_type' ('image' or 'pdf') is required when bookmark_type is 'asset'.")
    ELSE Ok(PyNone)

ValidateBookmarkTypeArgs(a) ==
    IF a.bookmark_type = PyStr(S_link) /\ IsNone(a.url)
    THEN Raise("ValueError", "Argument 'url' is required when bookmark_type is 'link'.")
    ELSE IF a.bookmark_type = PyStr(S_text) /\ IsNone(a.text)
    THEN Raise("ValueError", "Argument 'text' is required when bookmark_type is 'text'.")
    ELSE IF a.bookmark_type = PyStr(S_asset)
    THEN IF IsNone(a.asset_type)
         THEN Raise("ValueError", "Argument 'asset_type' ('image' or 'pdf') is required when bookmark_type is 'asset'.")
         ELSE IF IsNone(a.asset_id)
         THEN Raise("ValueError", "Argument 'asset_id' is required when bookmark_type is 'asset'.")
         ELSE Ok(PyNone)
    ELSE Ok(PyNone)

\* the dict d with the key k set to x when x is not None
PutIfGiven(d, k, x) == IF IsNone(x) THEN d ELSE (k :> x) @@ d

\* _build_bookmark_request_body
BuildBookmarkRequestBody(a) ==
    LET common ==
            PutIfGiven(PutIfGiven(PutIfGiven(PutIfGiven(PutIfGiven(PutIfGiven(
                [type |-> a.bookmark_type],
                "title", a.title), "archived", a.archived), "favourited", a.favourited),
                "note", a.note), "summary", a.summary), "createdAt", a.created_at)
    IN  PyDict(
        IF a.bookmark_type = PyStr(S_link)
        THEN PutIfGiven(("url" :> a.url) @@ common,
                        "precrawledArchiveId", a.precrawled_archive_id)
        ELSE IF a.bookmark_type = PyStr(S_text)
        THEN PutIfGiven(("text" :> a.text) @@ common, "sourceUrl", a.source_url)
        ELSE IF a.bookmark_type = PyStr(S_asset)
        THEN PutIfGiven(PutIfGiven(("assetType" :> a.asset_type) @@ ("assetId" :> a.asset_id) @@ common,
                                   "fileName", a.file_name), "sourceUrl", a.source_url)
        ELSE common)

\* create_bookmark
CreateBookmarkStart(c, a) ==
    LET checked == ValidateBookmarkTypeArgs(a)
    IN  IF ~checked.ok THEN Fail(checked)
        ELSE Send(CallRequest(c, "POST", Endpoint("bookmarks", <<>>), PyNone,
                              BuildBookmarkRequestBody(a), PyNone, PyNone))

CreateBookmarkFinish(resp) ==
    LET response_data == CallResult(PyNone, resp)
    IN  IF ~response_data.ok THEN response_data
        ELSE ValidateBookmark(response_data.value)

\* delete_bookmark
DeleteBookmarkStart(c, a) ==
    Send(CallRequest(c, "DELETE", Endpoint("bookmarks/{}", <<a.bookmark_id>>),
                     PyNone, PyNone, PyNone, PyNone))

DeleteBookmarkFinish(resp) ==
    LET response_data == CallResult(PyNone, resp)
    IN  IF ~response_data.ok THEN response_data ELSE Ok(PyNone)

\* update_bookmark
UpdateBookmarkStart(c, a) ==
    IF ~Truthy(a.update_data)
    THEN Fail(Raise("ValueError", "update_data must contain at least one field to update."))
    ELSE Send(CallRequest(c, "PATCH", Endpoint("bookmarks/{}", <<a.bookmark_id>>),
                          PyNone, a.update_data, PyNone, PyNone))

UpdateBookmarkFinish(resp) == CallResult(PyNone, resp)

\* the element checks of add_bookmark_tags / delete_bookmark_tags: the first index
\* (0-based, as enumerate counts) whose element is not a non-blank str, or -1
BadElements(xs) ==
    {i \in 1..Len(xs) : ~IsStr(xs[i]) \/ ~Truthy(PyStr(Strip(xs[i].v)))}
FirstBadIndex(xs) == IF BadElements(xs) = {} THEN -1 ELSE SetMin(BadElements(xs)) - 1

\* add_bookmark_tags: the validation of its arguments
AddTagsCheck(a) ==
    IF ~Truthy(a.tag_ids) /\ ~Truthy(a.tag_names)
    THEN Raise("ValueError", "At least one of 'tag_ids' or 'tag_names' must be provided")
    ELSE IF ~IsNone(a.tag_ids) /\ ~IsList(a.tag_ids)
    THEN Raise("ValueError", "'tag_ids' must be a list of strings")
    ELSE IF ~IsNone(a.tag_names) /\ ~IsList(a.tag_names)
    THEN Raise("ValueError", "'tag_names' must be a list of strings")
    ELSE IF Truthy(a.tag_ids) /\ FirstBadIndex(a.tag_ids.v) >= 0
    THEN [Raise("ValueError", "Tag ID at index {i} must be a non-empty string")
             EXCEPT !.msg.detail = PyInt(FirstBadIndex(a.tag_ids.v))]
    ELSE IF Truthy(a.tag_names) /\ FirstBadIndex(a.tag_names.v) >= 0
    THEN [Raise("ValueError", "Tag name at index {i} must be a non-empty string")
             EXCEPT !.msg.detail = PyInt(FirstBadIndex(a.tag_names.v))]
    ELSE Ok(PyNone)

\* add_bookmark_tags: tags_list, one {"tagId": id.strip()} per id, then one {"tagName": name.strip()} per name
\* a variant of tags_list with the tagName entries first
AddTagsListNamesFirst(a) ==
    (IF Truthy(a.tag_names)
     THEN [i \in 1..Len(a.tag_names.v) |-> PyDict([tagName |-> PyStr(Strip(a.tag_names.v[i].v))])]
     ELSE <<>>)
    \o
    (IF Truthy(a.tag_ids)
     THEN [i \in 1..Len(a.tag_ids.v) |-> PyDict([tagId |-> PyStr(Strip(a.tag_ids.v[i].v))])]
     ELSE <<>>)

AddTagsList(a) ==
    (IF Truthy(a.tag_ids)
     THEN [i \in 1..Len(a.tag_ids.v) |-> PyDict([tagId |-> PyStr(Strip(a.tag_ids.v[i].v))])]
     ELSE <<>>)
    \o
    (IF Truthy(a.tag_names)
     THEN [i \in 1..Len(a.tag_names.v) |-> PyDict([tagName |-> PyStr(Strip(a.tag_names.v[i].v))])]
     ELSE <<>>)

AddTagsData(a) == PyDict([tags |-> PyList(AddTagsList(a))])

\* delete_bookmark_tags: the validation of its arguments
\* a variant of the validation that does not look at the elements
DeleteTagsCheckNoElements(a) ==
    IF ~Truthy(a.tag_ids) /\ ~Truthy(a.tag_names)
    THEN Raise("ValueError", "At least one of 'tag_ids' or 'tag_names' must be provided")
    ELSE IF ~IsNone(a.tag_ids) /\ ~IsList(a.tag_ids)
    THEN Raise("ValueError", "'tag_ids' must be a list of strings")
    ELSE IF ~IsNone(a.tag_names) /\ ~IsList(a.tag_names)
    THEN Raise("ValueError", "'tag_names' must be a list of strings")
    ELSE Ok(PyNone)

DeleteTagsCheck(a) ==
    IF ~Truthy(a.tag_ids) /\ ~Truthy(a.tag_names)
    THEN Raise("ValueError", "At least one of 'tag_ids' or 'tag_names' must be provided")
    ELSE IF ~IsNone(a.tag_ids) /\ ~IsList(a.tag_ids)
    THEN Raise("ValueError", "'tag_ids' must be a list of strings")
    ELSE IF ~IsNone(a.tag_names) /\ ~IsList(a.tag_names)
    THEN Raise("ValueError", "'tag_names' must be a list of strings")
    ELSE IF Truthy(a.tag_ids) /\ FirstBadIndex(a.tag_ids.v) >= 0
    THEN [Raise("ValueError", "Tag ID at index {i} must be a non-empty string")
             EXCEPT !.msg.detail = PyInt(FirstBadIndex(a.tag_ids.v))]
    ELSE IF Truthy(a.tag_names) /\ FirstBadIndex(a.tag_names.v) >= 0
    THEN [Raise("ValueError", "Tag name at index {i} must be a non-empty string")
             EXCEPT !.msg.detail = PyInt(FirstBadIndex(a.tag_names.v))]
    ELSE Ok(PyNone)

\* delete_bookmark_tags: tags_list, one {"tagId": id.strip()} per id, then one {"tagName": name.strip()} per name
DeleteTagsList(a) ==
    (IF Truthy(a.tag_ids)
     THEN [i \in 1..Len(a.tag_ids.v) |-> PyDict([tagId |-> PyStr(Strip(a.tag_ids.v[i].v))])]
     ELSE <<>>)
    \o
    (IF Truthy(a.tag_names)
     THEN [i \in 1..Len(a.tag_names.v) |-> PyDict([tagName |-> PyStr(Strip(a.tag_names.v[i].v))])]
     ELSE <<>>)

DeleteTagsData(a) == PyDict([tags |-> PyList(DeleteTagsList(a))])

\* add_bookmark_tags
AddBookmarkTagsStart(c, a) ==
    LET checked == AddTagsCheck(a)
    IN  IF ~checked.ok THEN Fail(checked)
        ELSE Send(CallRequest(c, "POST", Endpoint("bookmarks/{}/tags", <<a.bookmark_id>>),
                              PyNone, AddTagsData(a), PyNone, PyNone))

AddBookmarkTagsFinish(resp) == CallResult(PyNone, resp)

\* delete_bookmark_tags
DeleteBookmarkTagsStart(c, a) ==
    LET checked == DeleteTagsCheck(a)
    IN  IF ~checked.ok THEN Fail(checked)
        ELSE Send(CallRequest(c, "DELETE", Endpoint("bookmarks/{}/tags", <<a.bookmark_id>>),
                              PyNone, DeleteTagsData(a), PyNone, PyNone))

DeleteBookmarkTagsFinish(resp) == CallResult(PyNone, resp)

\* attach_bookmark_asset
AttachBookmarkAssetStart(c, a) ==
    Send(CallRequest(c, "POST", Endpoint("bookmarks/{}/assets", <<a.bookmark_id>>), PyNone,
                     PyDict([id |-> a.asset_id, assetType |-> a.asset_type]),
                     PyNone, PyNone))

AttachBookmarkAssetFinish(resp) ==
    LET response_data == CallResult(PyNone, resp)
    IN  IF ~response_data.ok THEN response_data
        ELSE ValidateBookmarkAsset(response_data.value)

\* update_bookmark_asset
UpdateBookmarkAssetStart(c, a) ==
    Send(CallRequest(c, "PUT", Endpoint("bookmarks/{}/assets/{}", <<a.bookmark_id, a.asset_id>>),
                     PyNone, PyDict([assetId |-> a.new_asset_id]), PyNone, PyNone))

UpdateBookmarkAssetFinish(resp) ==
    LET response_data == CallResult(PyNone, resp)
    IN  IF ~response_data.ok THEN response_data ELSE Ok(PyNone)

\* delete_bookmark_asset
DeleteBookmarkAssetStart(c, a) ==
    Send(CallRequest(c, "DELETE", Endpoint("bookmarks/{}/assets/{}", <<a.bookmark_id, a.asset_id>>),
                     PyNone, PyNone, PyNone, PyNone))

DeleteBookmarkAssetFinish(resp) ==
    LET response_data == CallResult(PyNone, resp)
    IN  IF ~response_data.ok THEN response_data ELSE Ok(PyNone)

\* upload_new_asset.  The file system answers for the path: whether it is a file,
\* whether it can be read, and the MIME type mimetypes guesses ("" for none).
UploadNewAssetStart(c, a) ==
    IF ~a.file.isfile
    THEN Fail(Raise("FileNotFoundError", "File not found"))
    ELSE IF ~a.file.readable
    THEN Fail(ApiError("Failed to read file", PyNone, PyNone, "OSError"))
    ELSE LET mime_type == IF a.file.guessed = "" THEN "application/octet-stream"
                          ELSE a.file.guessed
             files == PyDict([file |-> <<a.file.basename, a.file.content, mime_type>>])
         IN  Send(CallRequest(c, "POST", Endpoint("assets", <<>>), PyNone, PyNone, files, PyNone))

UploadNewAssetFinish(resp) ==
    LET response_data == CallResult(PyNone, resp)
    IN  IF ~response_data.ok THEN response_data
        ELSE ValidateAsset(response_data.value)

MIN_ASSET_ID_LEN == 5
AssetHeaders == PyDict("Accept" :> <<"*/*">>)

\* get_asset
\* a variant of the start of get_asset without the check of the length of the id
GetAssetStartAnyLength(c, a) ==
    IF ~Truthy(PyStr(a.asset_id)) \/ ~Truthy(PyStr(Strip(a.asset_id)))
    THEN Fail(Raise("ValueError", "asset_id cannot be empty"))
    ELSE Send(CallRequest(c, "GET", Endpoint("assets/{}", <<PyStr(Strip(a.asset_id))>>),
                          PyNone, PyNone, PyNone, AssetHeaders))

GetAssetStart(c, a) ==
    IF ~Truthy(PyStr(a.asset_id)) \/ ~Truthy(PyStr(Strip(a.asset_id)))
    THEN Fail(Raise("ValueError", "asset_id cannot be empty"))
    ELSE IF Len(Strip(a.asset_id)) < MIN_ASSET_ID_LEN
    THEN Fail(Raise("ValueError", "asset_id appears to be invalid"))
    ELSE Send(CallRequest(c, "GET", Endpoint("assets/{}", <<PyStr(Strip(a.asset_id))>>),
                          PyNone, PyNone, PyNone, AssetHeaders))

GetAssetFinish(resp) ==
    LET response_data == CallResult(AssetHeaders, resp)
    IN  IF ~response_data.ok THEN response_data
        ELSE IF response_data.value.t = "bytes" THEN response_data
        ELSE IF IsNone(response_data.value) \/ response_data.value = PyDict(EmptyMap)
        THEN Ok(PyBytes(<<>>))
        ELSE ApiError("Expected bytes from asset endpoint", PyNone, PyNone, "")

\* _call, invoked by the caller itself
CallStart(c, a) ==
    Send(CallRequest(c, a.method, a.endpoint, a.params, a.data, a.files, a.extra_headers))

CallFinish(a, resp) == CallResult(a.extra_headers, resp)

-----------------------------------------------------------------------------
(* get_all_urls *)

\* the URLs one page adds to all_urls: `if url: all_urls.add(url)`
\* a variant of PageUrls that takes the url of link bookmarks only
PageUrlsOfLinks(page) ==
    {page.v.bookmarks.v[i].v.content.v.url.v :
        i \in {i \in 1..Len(page.v.bookmarks.v) :
                 /\ page.v.bookmarks.v[i].v.content.v.type = PyStr(S_link)
                 /\ Truthy(page.v.bookmarks.v[i].v.content.v.url)}}

PageUrls(page) ==
    {ExtractUrlFromBookmark(page.v.bookmarks.v[i]).v :
        i \in {i \in 1..Len(page.v.bookmarks.v) :
                 Truthy(ExtractUrlFromBookmark(page.v.bookmarks.v[i]))}}


PAGE_LIMIT == 100

\* a variant of the page request of get_all_urls that never passes the cursor on
GetAllUrlsRequestFromStart(c, next_cursor) ==
    GetBookmarksPagedStart(c, [archived |-> PyNone, favourited |-> PyNone,
                               sort_order |-> PyNone, limit |-> PyInt(PAGE_LIMIT),
                               cursor |-> PyNone, include_content |-> PyBool(FALSE)])

\* the request of one iteration: client.get_bookmarks_paged(cursor=next_cursor, limit=100)
GetAllUrlsRequest(c, next_cursor) ==
    GetBookmarksPagedStart(c, [archived |-> PyNone, favourited |-> PyNone,
                               sort_order |-> PyNone, limit |-> PyInt(PAGE_LIMIT),
                               cursor |-> next_cursor, include_content |-> PyBool(FALSE)])

\* before the first await: the client is constructed (outside the try), then the
\* first page is requested with no cursor
GetAllUrlsStart(a, env) ==
    LET client == ClientInit(a.api_key, a.base_url, a.timeout, FALSE, env)
    IN  IF ~client.ok THEN Fail(client)
        ELSE LET started == GetAllUrlsRequest(client.value, PyNone)
             IN  IF started.sends THEN started ELSE Fail(Ok(PySet({})))

\* one iteration of the while loop, from the response of its page request on:
\* whether the loop goes on, all_urls and next_cursor after it
\* a variant of the loop body whose except branch discards all_urls
GetAllUrlsIterationDiscarding(all_urls, resp) ==
    LET bookmarks_response == GetBookmarksPagedFinish(resp)
    IN  IF ~bookmarks_response.ok
        THEN [goes_on |-> FALSE, all_urls |-> {}, next_cursor |-> PyNone]
        ELSE [goes_on |-> Truthy(bookmarks_response.value.v.next_cursor),
              all_urls |-> all_urls \cup PageUrls(bookmarks_response.value),
              next_cursor |-> bookmarks_response.value.v.next_cursor]

\* a variant of the loop body that also stops on a page without bookmarks
GetAllUrlsIterationStoppingOnEmpty(all_urls, resp) ==
    LET bookmarks_response == GetBookmarksPagedFinish(resp)
    IN  IF ~bookmarks_response.ok
        THEN [goes_on |-> FALSE, all_urls |-> all_urls, next_cursor |-> PyNone]
        ELSE LET next_cursor == bookmarks_response.value.v.next_cursor
                 urls == all_urls \cup PageUrls(bookmarks_response.value)
             IN  [goes_on |-> Truthy(next_cursor) /\ bookmarks_response.value.v.bookmarks.v # <<>>,
                  all_urls |-> urls,
                  next_cursor |-> next_cursor]

GetAllUrlsIteration(all_urls, resp) ==
    LET bookmarks_response == GetBookmarksPagedFinish(resp)
    IN  IF ~bookmarks_response.ok
        THEN [goes_on |-> FALSE, all_urls |-> all_urls, next_cursor |-> PyNone]
        ELSE LET next_cursor == bookmarks_response.value.v.next_cursor
                 urls == all_urls \cup PageUrls(bookmarks_response.value)
             IN  [goes_on |-> Truthy(next_cursor), all_urls |-> urls,
                  next_cursor |-> next_cursor]

-----------------------------------------------------------------------------
(* The inputs the model draws from: URLs, bookmark payloads, listing pages,  *)
(* response bodies                                                           *)

URL_A == <<"h", "t", "t", "p", "s", ":", "/", "/", "a", ".", "c", "o", "/", "1">>
URL_B == <<"h", "t", "t", "p", "s", ":", "/", "/", "b", ".", "c", "o", "/", "2">>
URL_EX == <<"h", "t", "t", "p", "s", ":", "/", "/", "e", "x", "a", "m", "p", "l", "e", ".", "c", "o", "m">>
URL_EX_SLASH == <<"h", "t", "t", "p", "s", ":", "/", "/", "e", "x", "a", "m", "p", "l", "e", ".", "c", "o", "m", "/">>
URL_EX_UPPER == <<" ", "H", "T", "T", "P", "S", ":", "/", "/", "E", "x", "a", "m", "p", "l", "e", ".", "C", "O", "M", ":", "4", "4", "3", " ">>
URL_NOT == <<"n", "o", "t", "-", "a", "-", "u", "r", "l">>
URL_FTP == <<"f", "t", "p", ":", "/", "/", "a", ".", "c", "o">>
URL_BLANK == <<" ", " ">>
URL_DASH == <<"h", "t", "t", "p", ":", "/", "/", "a", ".", "-", "b", ".", "c", "o">>
URL_HTTP_BARE == <<"h", "t", "t", "p", ":", "/", "/">>
URL_FTP_BARE == <<"f", "t", "p", ":", "/", "/">>

Id(n) == PyStr(<<"b", n>>)
Timestamp == PyStr(<<"2", "0", "2", "3", "-", "0", "1", "-", "0", "1", "T", "0", "0", ":", "0", "0", ":", "0", "0", "Z">>)

\* a bookmark payload as the service sends it (wire keys), with the given content
BookmarkPayload(id, content) ==
    PyDict([id |-> id, createdAt |-> Timestamp, modifiedAt |-> PyNone,
            title |-> PyStr(<<"T">>), archived |-> PyBool(FALSE), favourited |-> PyBool(FALSE),
            taggingStatus |-> PyStr(S_success), summarizationStatus |-> PyNone,
            note |-> PyNone, summary |-> PyNone,
            tags |-> PyList(<<PyDict([id |-> PyStr(<<"t", "1">>), name |-> PyStr(<<"n">>),
                                     attachedBy |-> PyStr(S_ai)])>>),
            content |-> content,
            assets |-> PyList(<<>>)])

LinkContent(url) == PyDict([type |-> PyStr(S_link), url |-> PyStr(url)])
TextContent(text) == PyDict([type |-> PyStr(S_text), text |-> PyStr(text)])
TextContentFrom(text, src) ==
    PyDict([type |-> PyStr(S_text), text |-> PyStr(text), sourceUrl |-> PyStr(src)])
AssetContentFrom(src) ==
    PyDict([type |-> PyStr(S_asset), assetType |-> PyStr(S_image),
            assetId |-> PyStr(<<"a", "s", "1">>), sourceUrl |-> PyStr(src)])
UnknownContent == PyDict([type |-> PyStr(S_unknown)])

BmLinkA == BookmarkPayload(Id("1"), LinkContent(URL_A))
BmTextB == BookmarkPayload(Id("2"), TextContentFrom(<<"x">>, URL_B))
BmAssetA == BookmarkPayload(Id("3"), AssetContentFrom(URL_A))
BmTextPlain == BookmarkPayload(Id("4"), TextContent(<<"x">>))
BmUnknown == BookmarkPayload(Id("5"), UnknownContent)
BmLinkEmpty == BookmarkPayload(Id("6"), LinkContent(<<>>))
BmLinkEx == BookmarkPayload(Id("7"), LinkContent(URL_EX_SLASH))
BmLinkNot == BookmarkPayload(Id("8"), LinkContent(URL_NOT))
\* a link bookmark without its url: fails validation
BmBroken == BookmarkPayload(Id("9"), PyDict([type |-> PyStr(S_link)]))

\* a content whose type is none of link, text, asset, unknown
BmFuture == BookmarkPayload(Id("f"), PyDict([type |-> PyStr(<<"f", "u", "t", "u", "r", "e">>)]))
\* contents without the type key: one with a url, one with no key at all
BmTypeless == BookmarkPayload(Id("n"), PyDict([url |-> PyStr(URL_A)]))
BmNoFields == BookmarkPayload(Id("e"), PyDict(EmptyMap))
\* a link bookmark with the keys source and userId, and pdfAssetId and
\* crawlStatus in its content
BmService ==
    PyDict([source |-> PyStr(<<"a", "p", "i">>),
            userId |-> PyStr(<<"u", "s", "e", "r", "-", "1", "2", "3">>),
            content |-> PyDict([type |-> PyStr(S_link), url |-> PyStr(URL_A),
                                title |-> PyStr(<<"T">>),
                                pdfAssetId |-> PyStr(<<"p", "d", "f", "_", "4", "5", "6">>),
                                crawlStatus |-> PyStr(S_success)])]
           @@ BmLinkA.v)

\* the bookmark lists of the pages
BookmarkLists == <<
    <<>>,
    <<BmLinkA>>,
    <<BmTextB>>,
    <<BmAssetA, BmLinkA>>,
    <<BmTextPlain, BmUnknown, BmLinkEmpty>>,
    <<BmLinkEx>>,
    <<BmLinkNot, BmLinkEx>>,
    <<BmBroken>> >>

\* nextCursor of a page: null, the empty string, a cursor; absent is a page
\* without the key
CursorValues == <<PyNone, PyStr(<<>>), PyStr(<<"c", "1">>), PyStr(<<"c", "2">>)>>

Digit == <<"0", "1", "2", "3", "4", "5", "6", "7", "8", "9">>

\* a body that decodes as JSON; its raw content stands for the encoded text
JsonBody(name, json) ==
    [raw |-> <<"{">> \o name \o <<"}">>, decodes |-> TRUE, utf8 |-> TRUE, json |-> json]
\* a body of text that is not JSON
TextBody(raw) == [raw |-> raw, decodes |-> FALSE, utf8 |-> TRUE, json |-> PyNone]
\* a body that is not UTF-8 text, such as the content of an image
BinaryBody == [raw |-> <<"\\x89", "P", "N", "G">>, decodes |-> FALSE, utf8 |-> FALSE, json |-> PyNone]

PageBody(i, k) ==
    JsonBody(<<"page", Digit[i + 1], Digit[k + 1]>>,
             IF k = 0
             THEN PyDict([bookmarks |-> PyList(BookmarkLists[i])])
             ELSE PyDict([bookmarks |-> PyList(BookmarkLists[i]), nextCursor |-> CursorValues[k]]))

PageBodies == {PageBody(i, k) : i \in 1..Len(BookmarkLists), k \in 0..Len(CursorValues)}

ErrorBody == JsonBody(<<"error">>, PyDict([code |-> PyStr(<<"N", "F">>)]))
HtmlBody == TextBody(<<"o", "o", "p", "s">>)
EmptyBody == TextBody(<<>>)

\* the bodies that are one bookmark
BookmarkBodies ==
    {JsonBody(<<"bookmark">>, BmLinkA),
     JsonBody(<<"bookmarkText">>, BmTextB),
     JsonBody(<<"bookmarkUnknown">>, BmUnknown),
     JsonBody(<<"bookmarkFuture">>, BmFuture),
     JsonBody(<<"bookmarkTypeless">>, BmTypeless),
     JsonBody(<<"bookmarkNoFields">>, BmNoFields),
     JsonBody(<<"bookmarkService">>, BmService)}

\* a bookmark asset payload with the given assetType
BookmarkAssetPayload(asset_type) ==
    PyDict([id |-> PyStr(<<"a", "s", "1">>), assetType |-> PyStr(asset_type)])

S_userUploaded == <<"u", "s", "e", "r", "U", "p", "l", "o", "a", "d", "e", "d">>
S_avatar == <<"a", "v", "a", "t", "a", "r">>
S_invalidType == <<"i", "n", "v", "a", "l", "i", "d", "T", "y", "p", "e">>

\* the bodies that are one bookmark asset
BookmarkAssetBodies ==
    {JsonBody(<<"bookmarkAsset">>, BookmarkAssetPayload(S_screenshot)),
     JsonBody(<<"bookmarkAssetPdf">>, BookmarkAssetPayload(S_pdf)),
     JsonBody(<<"bookmarkAssetInvalid">>, BookmarkAssetPayload(S_invalidType))}

OtherBodies ==
    BookmarkBodies \cup BookmarkAssetBodies \cup
    {JsonBody(<<"empty">>, PyDict(EmptyMap)),
     JsonBody(<<"null">>, PyNone),
     JsonBody(<<"attached">>, PyDict([attached |-> PyList(<<PyStr(<<"t", "1">>)>>)])),
     JsonBody(<<"asset">>, PyDict([assetId |-> PyStr(<<"a", "s", "1">>),
                                   contentType |-> PyStr(<<"p", "d", "f">>),
                                   size |-> PyInt(1024),
                                   fileName |-> PyStr(<<"f">>)])),
     HtmlBody,
     EmptyBody,
     BinaryBody}

\* what the service may answer to one request
Responses ==
    {NetworkError}
    \cup {Response(200, b) : b \in PageBodies \cup OtherBodies}
    \cup {Response(201, b) : b \in {JsonBody(<<"bookmark">>, BmLinkA), HtmlBody}}
    \cup {Response(HTTP_NO_CONTENT, EmptyBody)}
    \cup {Response(HTTP_UNAUTHORIZED, ErrorBody)}
    \cup {Response(st, b) : st \in {301, 404, 500}, b \in {ErrorBody, HtmlBody, BinaryBody}}

-----------------------------------------------------------------------------
(* Bounds of the model *)

\* get_all_urls is followed for at most MaxPages page requests
MaxPages == 2
\* the tag lists given to the tag operations have at most MaxTags elements
MaxTags == 2
\* the limits tried lie within LimitSpan of the maximum (besides None and 0)
LimitSpan == 1

\* the sequences over S of length at most n
RECURSIVE SeqsUpTo(_, _)
SeqsUpTo(S, n) ==
    IF n = 0 THEN {<<>>}
    ELSE SeqsUpTo(S, n - 1) \cup {Append(q, x) : q \in {q \in SeqsUpTo(S, n - 1) : Len(q) = n - 1}, x \in S}

-----------------------------------------------------------------------------
(* The arguments callers pass *)

LimitArgs ==
    {PyNone, PyInt(0)} \cup {PyInt(n) : n \in (MAX_LIMIT - LimitSpan)..(MAX_LIMIT + LimitSpan)}

BookmarkIdArgs == {Id("1")}

GetBookmarksPagedArgs ==
    [archived : {PyNone, PyBool(TRUE)}, favourited : {PyNone}, sort_order : {PyNone},
     limit : LimitArgs, cursor : {PyNone, PyStr(<<"c", "1">>)},
     include_content : {PyBool(FALSE)}]

SearchBookmarksArgs ==
    [q : {PyStr(<<"q">>)}, sort_order : {PyNone}, limit : LimitArgs, cursor : {PyNone},
     include_content : {PyBool(TRUE)}]

GetBookmarkArgs == [bookmark_id : BookmarkIdArgs, include_content : {PyBool(TRUE)}]

GetBookmarkIdByUrlArgs ==
    [url : {<<>>, URL_BLANK, URL_EX, URL_EX_SLASH, URL_EX_UPPER, URL_A, URL_NOT, URL_FTP}]

ValidateUrlArgs ==
    [url : {<<>>, URL_BLANK, URL_NOT, URL_HTTP_BARE, URL_FTP_BARE, URL_FTP, URL_A, URL_EX,
            URL_EX_UPPER, URL_DASH}]

CreateBookmarkArgs ==
    [bookmark_type : {PyStr(S_link), PyStr(S_text), PyStr(S_asset)},
     title : {PyNone, PyStr(<<"T">>)}, archived : {PyNone}, favourited : {PyNone},
     note : {PyNone}, summary : {PyNone}, created_at : {PyNone},
     url : {PyNone, PyStr(<<>>), PyStr(URL_A)}, precrawled_archive_id : {PyNone},
     text : {PyNone, PyStr(<<"x">>)}, source_url : {PyNone},
     asset_type : {PyNone, PyStr(S_image)}, asset_id : {PyNone, PyStr(<<"a", "s", "1">>)},
     file_name : {PyNone}]

UpdateBookmarkArgs ==
    [bookmark_id : BookmarkIdArgs,
     update_data : {PyDict(EmptyMap), PyDict([archived |-> PyBool(TRUE)])}]

\* tag arguments: None, a value that is not a list, the lists of at most MaxTags
\* elements, and lists with a padded string, a blank string or a non-str
TagIdArgs ==
    {PyNone, PyStr(<<"a", "b">>),
     PyList(<<PyStr(<<" ", "a", " ">>)>>), PyList(<<PyStr(<<"a">>), PyInt(7)>>)}
    \cup {PyList(l) : l \in SeqsUpTo({PyStr(<<"a">>), PyStr(<<"b">>)}, MaxTags)}
TagNameArgs ==
    {PyNone, PyInt(0)}
    \cup {PyList(l) : l \in SeqsUpTo({PyStr(<<"x">>), PyStr(<<" ">>)},
                                    MaxTags)}

TagArgs == [bookmark_id : BookmarkIdArgs, tag_ids : TagIdArgs, tag_names : TagNameArgs]

AttachBookmarkAssetArgs ==
    [bookmark_id : BookmarkIdArgs, asset_id : {PyStr(<<"a", "s", "1">>)},
     asset_type : {PyStr(S_screenshot)}]

UpdateBookmarkAssetArgs ==
    [bookmark_id : BookmarkIdArgs, asset_id : {PyStr(<<"a", "s", "1">>)},
     new_asset_id : {PyStr(<<"a", "s", "2">>)}]

DeleteBookmarkArgs == [bookmark_id : BookmarkIdArgs]

DeleteBookmarkAssetArgs == [bookmark_id : BookmarkIdArgs, asset_id : {PyStr(<<"a", "s", "1">>)}]

\* what the file system answers for the path given to upload_new_asset
UploadNewAssetArgs ==
    [file : {[basename |-> "doc.pdf", isfile |-> TRUE, readable |-> TRUE,
              guessed |-> "application/pdf", content |-> <<"%", "P", "D", "F">>],
             [basename |-> "blob", isfile |-> TRUE, readable |-> TRUE,
              guessed |-> "", content |-> <<>>],
             [basename |-> "locked", isfile |-> TRUE, readable |-> FALSE,
              guessed |-> "", content |-> <<>>],
             [basename |-> "missing", isfile |-> FALSE, readable |-> FALSE,
              guessed |-> "", content |-> <<>>]}]

GetAssetArgs ==
    [asset_id : {<<>>, <<" ", " ">>, <<"a", "s", "1">>, <<" ", "a", "s", "1", "2", " ">>,
                 <<"a", "s", "s", "e", "t", "1">>, <<" ", "a", "s", "s", "e", "t", " ">>}]

\* the query parameters, files and headers given to _call
ParamsArgs ==
    {PyNone,
     PyDict(EmptyMap),
     PyDict([cursor |-> PyNone]),
     PyDict([q |-> PyStr(<<>>), limit |-> PyInt(0), includeContent |-> PyBool(FALSE),
             cursor |-> PyNone])}

FilesArgs ==
    {PyNone, PyDict([file |-> <<"doc.pdf", <<"%", "P", "D", "F">>, "application/pdf">>])}

ExtraHeadersArgs ==
    {PyNone,
     PyDict(EmptyMap),
     PyDict("Accept" :> <<"*/*">>),
     PyDict("Content-Type" :> <<"text/plain">>),
     PyDict(("Authorization" :> <<"Bearer", PyStr("other_key")>>) @@ ("X-Trace" :> <<"1">>)),
     PyDict("content-type" :> <<"text/plain">>)}

CallArgs ==
    [method : {"POST"}, endpoint : {Endpoint("assets", <<>>)}, params : ParamsArgs,
     data : {PyNone, PyDict([title |-> PyStr(<<"T">>)])}, files : FilesArgs,
     extra_headers : ExtraHeadersArgs]

DEFAULT_TIMEOUT == 30

GetAllUrlsArgs ==
    [api_key : {PyNone, PyStr("key")}, base_url : {PyNone, PyStr("https://karakeep.test")},
     timeout : {DEFAULT_TIMEOUT}]

\* os.environ as the process may start with it
Environs ==
    {EmptyMap,
     [RAISE_VALIDATION_ERROR |-> "False", KARAKEEP_API_KEY |-> "envkey",
      KARAKEEP_BASEURL |-> "https://env.test"]}

-----------------------------------------------------------------------------
(* The state machine: a caller invokes one operation at a time on a client;  *)
(* the operation fails locally or sends its request and awaits; the service  *)
(* answers; the operation returns or raises.                                 *)

VARIABLES
    client,     \* the KarakeepClient the caller holds
    environ,    \* os.environ
    pc,         \* "idle", "awaiting" (a request is in flight), "done"
    frame,      \* the operation in progress: its name, arguments and locals
    sent,       \* the requests the operation has sent, in order
    received,   \* the responses it has received, in order
    result      \* what the operation returned or raised, once done

vars == <<client, environ, pc, frame, sent, received, result>>

NoFrame == [op |-> "", args |-> <<>>, all_urls |-> {}, next_cursor |-> PyNone]

Init ==
    /\ environ \in Environs
    /\ client = ClientInit(PyStr("test_key"), PyStr("https://test.karakeep.app"),
                           DEFAULT_TIMEOUT, FALSE, environ).value
    /\ pc = "idle"
    /\ frame = NoFrame
    /\ sent = <<>>
    /\ received = <<>>
    /\ result = NoResult

\* the state an operation is in once the part before its await has run: it
\* awaits with its request sent, or it is done with what it returned or raised
Begun(op, a, started) ==
    [pc |-> IF started.sends THEN "awaiting" ELSE "done",
     frame |-> [op |-> op, args |-> a, all_urls |-> {}, next_cursor |-> PyNone],
     sent |-> IF started.sends THEN <<started.request>> ELSE <<>>,
     result |-> started.result]

\* os.environ after the part of get_bookmark_id_by_url before its await
GetBookmarkIdByUrlStartEnv(a, env) ==
    IF ~Truthy(PyStr(a.url)) \/ ~Truthy(PyStr(Strip(a.url))) THEN env
    ELSE ValidateUrlEnv(Strip(a.url), env)

\* the caller invokes get_bookmarks_paged
GetBookmarksPaged ==
    /\ pc = "idle"
    /\ \E a \in GetBookmarksPagedArgs :
        LET begun == Begun("get_bookmarks_paged", a, GetBookmarksPagedStart(client, a))
        IN  /\ pc' = begun.pc
            /\ frame' = begun.frame
            /\ sent' = begun.sent
            /\ result' = begun.result
            /\ environ' = environ
    /\ received' = <<>>
    /\ UNCHANGED client

\* the caller invokes get_bookmark
GetBookmark ==
    /\ pc = "idle"
    /\ \E a \in GetBookmarkArgs :
        LET begun == Begun("get_bookmark", a, GetBookmarkStart(client, a))
        IN  /\ pc' = begun.pc
            /\ frame' = begun.frame
            /\ sent' = begun.sent
            /\ result' = begun.result
            /\ environ' = environ
    /\ received' = <<>>
    /\ UNCHANGED client

\* the caller invokes search_bookmarks
SearchBookmarks ==
    /\ pc = "idle"
    /\ \E a \in SearchBookmarksArgs :
        LET begun == Begun("search_bookmarks", a, SearchBookmarksStart(client, a))
        IN  /\ pc' = begun.pc
            /\ frame' = begun.frame
            /\ sent' = begun.sent
            /\ result' = begun.result
            /\ environ' = environ
    /\ received' = <<>>
    /\ UNCHANGED client

\* the caller invokes get_bookmark_id_by_url
GetBookmarkIdByUrl ==
    /\ pc = "idle"
    /\ \E a \in GetBookmarkIdByUrlArgs :
        LET begun == Begun("get_bookmark_id_by_url", a, GetBookmarkIdByUrlStart(client, a))
        IN  /\ pc' = begun.pc
            /\ frame' = begun.frame
            /\ sent' = begun.sent
            /\ result' = begun.result
            /\ environ' = GetBookmarkIdByUrlStartEnv(a, environ)
    /\ received' = <<>>
    /\ UNCHANGED client

\* the caller invokes create_bookmark
CreateBookmark ==
    /\ pc = "idle"
    /\ \E a \in CreateBookmarkArgs :
        LET begun == Begun("create_bookmark", a, CreateBookmarkStart(client, a))
        IN  /\ pc' = begun.pc
            /\ frame' = begun.frame
            /\ sent' = begun.sent
            /\ result' = begun.result
            /\ environ' = environ
    /\ received' = <<>>
    /\ UNCHANGED client

\* the caller invokes delete_bookmark
DeleteBookmark ==
    /\ pc = "idle"
    /\ \E a \in DeleteBookmarkArgs :
        LET begun == Begun("delete_bookmark", a, DeleteBookmarkStart(client, a))
        IN  /\ pc' = begun.pc
            /\ frame' = begun.frame
            /\ sent' = begun.sent
            /\ result' = begun.result
            /\ environ' = environ
    /\ received' = <<>>
    /\ UNCHANGED client

\* the caller invokes update_bookmark
UpdateBookmark ==
    /\ pc = "idle"
    /\ \E a \in UpdateBookmarkArgs :
        LET begun == Begun("update_bookmark", a, UpdateBookmarkStart(client, a))
        IN  /\ pc' = begun.pc
            /\ frame' = begun.frame
            /\ sent' = begun.sent
            /\ result' = begun.result
            /\ environ' = environ
    /\ received' = <<>>
    /\ UNCHANGED client

\* the caller invokes add_bookmark_tags
AddBookmarkTags ==
    /\ pc = "idle"
    /\ \E a \in TagArgs :
        LET begun == Begun("add_bookmark_tags", a, AddBookmarkTagsStart(client, a))
        IN  /\ pc' = begun.pc
            /\ frame' = begun.frame
            /\ sent' = begun.sent
            /\ result' = begun.result
            /\ environ' = environ
    /\ received' = <<>>
    /\ UNCHANGED client

\* the caller invokes delete_bookmark_tags
DeleteBookmarkTags ==
    /\ pc = "idle"
    /\ \E a \in TagArgs :
        LET begun == Begun("delete_bookmark_tags", a, DeleteBookmarkTagsStart(client, a))
        IN  /\ pc' = begun.pc
            /\ frame' = begun.frame
            /\ sent' = begun.sent
            /\ result' = begun.result
            /\ environ' = environ
    /\ received' = <<>>
    /\ UNCHANGED client

\* the caller invokes attach_bookmark_asset
AttachBookmarkAsset ==
    /\ pc = "idle"
    /\ \E a \in AttachBookmarkAssetArgs :
        LET begun == Begun("attach_bookmark_asset", a, AttachBookmarkAssetStart(client, a))
        IN  /\ pc' = begun.pc
            /\ frame' = begun.frame
            /\ sent' = begun.sent
            /\ result' = begun.result
            /\ environ' = environ
    /\ received' = <<>>
    /\ UNCHANGED client

\* the caller invokes update_bookmark_asset
UpdateBookmarkAsset ==
    /\ pc = "idle"
    /\ \E a \in UpdateBookmarkAssetArgs :
        LET begun == Begun("update_bookmark_asset", a, UpdateBookmarkAssetStart(client, a))
        IN  /\ pc' = begun.pc
            /\ frame' = begun.frame
            /\ sent' = begun.sent
            /\ result' = begun.result
            /\ environ' = environ
    /\ received' = <<>>
    /\ UNCHANGED client

\* the caller invokes delete_bookmark_asset
DeleteBookmarkAsset ==
    /\ pc = "idle"
    /\ \E a \in DeleteBookmarkAssetArgs :
        LET begun == Begun("delete_bookmark_asset", a, DeleteBookmarkAssetStart(client, a))
        IN  /\ pc' = begun.pc
            /\ frame' = begun.frame
            /\ sent' = begun.sent
            /\ result' = begun.result
            /\ environ' = environ
    /\ received' = <<>>
    /\ UNCHANGED client

\* the caller invokes upload_new_asset
UploadNewAsset ==
    /\ pc = "idle"
    /\ \E a \in UploadNewAssetArgs :
        LET begun == Begun("upload_new_asset", a, UploadNewAssetStart(client, a))
        IN  /\ pc' = begun.pc
            /\ frame' = begun.frame
            /\ sent' = begun.sent
            /\ result' = begun.result
            /\ environ' = environ
            /\ client' = IF begun.pc = "awaiting"
                         THEN ClientAfterCall(client, begun.sent[1].files, PyNone)
                         ELSE client
    /\ received' = <<>>

\* the caller invokes get_asset
GetAsset ==
    /\ pc = "idle"
    /\ \E a \in GetAssetArgs :
        LET begun == Begun("get_asset", a, GetAssetStart(client, a))
        IN  /\ pc' = begun.pc
            /\ frame' = begun.frame
            /\ sent' = begun.sent
            /\ result' = begun.result
            /\ environ' = environ
            /\ client' = IF begun.pc = "awaiting"
                         THEN ClientAfterCall(client, PyNone, AssetHeaders)
                         ELSE client
    /\ received' = <<>>

\* the caller invokes _call
Call ==
    /\ pc = "idle"
    /\ \E a \in CallArgs :
        LET begun == Begun("_call", a, CallStart(client, a))
        IN  /\ pc' = begun.pc
            /\ frame' = begun.frame
            /\ sent' = begun.sent
            /\ result' = begun.result
            /\ environ' = environ
            /\ client' = IF begun.pc = "awaiting"
                         THEN ClientAfterCall(client, a.files, a.extra_headers)
                         ELSE client
    /\ received' = <<>>

\* the caller invokes the function validate_url
ValidateUrlCall ==
    /\ pc = "idle"
    /\ \E a \in ValidateUrlArgs :
        LET url == ValidateUrl(a.url)
        IN  /\ frame' = [op |-> "validate_url", args |-> a, all_urls |-> {}, next_cursor |-> PyNone]
            /\ result' = IF url.ok THEN Ok(PyStr(url.value)) ELSE url
            /\ environ' = ValidateUrlEnv(a.url, environ)
    /\ pc' = "done"
    /\ sent' = <<>>
    /\ received' = <<>>
    /\ UNCHANGED client

\* the caller invokes get_all_urls
GetAllUrls ==
    /\ pc = "idle"
    /\ \E a \in GetAllUrlsArgs :
        LET begun == Begun("get_all_urls", a, GetAllUrlsStart(a, environ))
        IN  /\ pc' = begun.pc
            /\ frame' = begun.frame
            /\ sent' = begun.sent
            /\ result' = begun.result
            /\ environ' = environ
    /\ received' = <<>>
    /\ UNCHANGED client

\* what the awaiting single-request operation makes of the response
Finish(f, resp) ==
    CASE f.op = "get_bookmarks_paged" -> GetBookmarksPagedFinish(resp)
      [] f.op = "get_bookmark" -> GetBookmarkFinish(resp)
      [] f.op = "search_bookmarks" -> SearchBookmarksFinish(resp)
      [] f.op = "get_bookmark_id_by_url" -> GetBookmarkIdByUrlFinish(f.args, resp)
      [] f.op = "create_bookmark" -> CreateBookmarkFinish(resp)
      [] f.op = "delete_bookmark" -> DeleteBookmarkFinish(resp)
      [] f.op = "update_bookmark" -> UpdateBookmarkFinish(resp)
      [] f.op = "add_bookmark_tags" -> AddBookmarkTagsFinish(resp)
      [] f.op = "delete_bookmark_tags" -> DeleteBookmarkTagsFinish(resp)
      [] f.op = "attach_bookmark_asset" -> AttachBookmarkAssetFinish(resp)
      [] f.op = "update_bookmark_asset" -> UpdateBookmarkAssetFinish(resp)
      [] f.op = "delete_bookmark_asset" -> DeleteBookmarkAssetFinish(resp)
      [] f.op = "upload_new_asset" -> UploadNewAssetFinish(resp)
      [] f.op = "get_asset" -> GetAssetFinish(resp)
      [] f.op = "_call" -> CallFinish(f.args, resp)

\* the service answers the request of a single-request operation, which
\* then returns or raises
HttpResponse ==
    /\ pc = "awaiting"
    /\ frame.op # "get_all_urls"
    /\ \E resp \in Responses :
        /\ received' = Append(received, resp)
        /\ result' = Finish(frame, resp)
        /\ environ' = IF frame.op = "get_bookmark_id_by_url"
                      THEN GetBookmarkIdByUrlFinishEnv(frame.args, resp, environ)
                      ELSE environ
    /\ pc' = "done"
    /\ UNCHANGED <<client, frame, sent>>

\* the service answers a page request of get_all_urls: one iteration of its
\* loop, which requests the next page or returns all_urls
GetAllUrlsPage ==
    /\ pc = "awaiting"
    /\ frame.op = "get_all_urls"
    /\ \E resp \in Responses :
        LET it == GetAllUrlsIteration(frame.all_urls, resp)
            c == ClientInit(frame.args.api_key, frame.args.base_url, frame.args.timeout,
                            FALSE, environ).value
            next == GetAllUrlsRequest(c, it.next_cursor)
        IN  /\ it.goes_on => Len(sent) < MaxPages
            /\ received' = Append(received, resp)
            /\ frame' = [frame EXCEPT !.all_urls = it.all_urls, !.next_cursor = it.next_cursor]
            /\ IF it.goes_on /\ next.sends
               THEN /\ pc' = "awaiting"
                    /\ sent' = Append(sent, next.request)
                    /\ result' = NoResult
               ELSE /\ pc' = "done"
                    /\ sent' = sent
                    /\ result' = Ok(PySet(it.all_urls))
    /\ UNCHANGED <<client, environ>>

\* the caller serialises the model an operation returned:
\* dumped = result.model_dump(by_alias=by_alias)
ModelDumpCall ==
    /\ pc = "done"
    /\ frame.op \notin {"model_dump", "model_validate"}
    /\ result.ok
    /\ result.value.t = "model"
    /\ \E by_alias \in BOOLEAN :
        /\ frame' = [op |-> "model_dump", args |-> [self |-> result.value, by_alias |-> by_alias],
                     all_urls |-> {}, next_cursor |-> PyNone]
        /\ result' = Ok(ModelDump(result.value, by_alias))
    /\ UNCHANGED <<client, environ, pc, sent, received>>

\* the caller validates what it dumped: type(self).model_validate(dumped)
ModelValidateCall ==
    /\ pc = "done"
    /\ frame.op = "model_dump"
    /\ frame' = [op |-> "model_validate", args |-> [self |-> frame.args.self, obj |-> result.value],
                 all_urls |-> {}, next_cursor |-> PyNone]
    /\ result' = ModelValidate(frame.args.self.cls, result.value)
    /\ UNCHANGED <<client, environ, pc, sent, received>>

\* the caller takes the result; the next invocation starts afresh
Return ==
    /\ pc = "done"
    /\ pc' = "idle"
    /\ frame' = NoFrame
    /\ sent' = <<>>
    /\ received' = <<>>
    /\ result' = NoResult
    /\ UNCHANGED <<client, environ>>

Next ==
    \/ GetBookmarksPaged
    \/ GetBookmark
    \/ SearchBookmarks
    \/ GetBookmarkIdByUrl
    \/ CreateBookmark
    \/ DeleteBookmark
    \/ UpdateBookmark
    \/ AddBookmarkTags
    \/ DeleteBookmarkTags
    \/ AttachBookmarkAsset
    \/ UpdateBookmarkAsset
    \/ DeleteBookmarkAsset
    \/ UploadNewAsset
    \/ GetAsset
    \/ Call
    \/ ValidateUrlCall
    \/ GetAllUrls
    \/ HttpResponse
    \/ GetAllUrlsPage
    \/ ModelDumpCall
    \/ ModelValidateCall
    \/ Return

Spec == Init /\ [][Next]_vars

-----------------------------------------------------------------------------
(* Construction: the caller constructs clients, KarakeepClient(api_key,       *)
(* base_url), under what os.environ holds                                    *)

\* no client constructed yet
NoClient == [api_key |-> PyNone, base_url |-> PyNone]

\* what os.environ may hold of the two variables: nothing, "", a value
ConstructEnvirons ==
    {[k \in K |-> IF k \in E THEN "" ELSE IF k = "KARAKEEP_API_KEY" THEN "envkey" ELSE "https://env.test"] :
        K \in SUBSET {"KARAKEEP_API_KEY", "KARAKEEP_BASEURL"},
        E \in SUBSET {"KARAKEEP_API_KEY", "KARAKEEP_BASEURL"}}

ConstructArgs ==
    [api_key : {PyNone, PyStr(""), PyStr("key")},
     base_url : {PyNone, PyStr(""), PyStr("https://karakeep.test")},
     timeout : {DEFAULT_TIMEOUT}, verbose : {FALSE}]

InitConstruct ==
    /\ environ \in ConstructEnvirons
    /\ client = NoClient
    /\ pc = "idle"
    /\ frame = NoFrame
    /\ sent = <<>>
    /\ received = <<>>
    /\ result = NoResult

\* the caller constructs a client, which it holds from then on; __init__ raises
\* or returns at once
Construct ==
    /\ pc = "idle"
    /\ \E a \in ConstructArgs :
        LET made == ClientInit(a.api_key, a.base_url, a.timeout, a.verbose, environ)
        IN  /\ frame' = [op |-> "__init__", args |-> a, all_urls |-> {}, next_cursor |-> PyNone]
            /\ result' = IF made.ok THEN Ok(PyNone) ELSE made
            /\ client' = IF made.ok THEN made.value ELSE client
    /\ pc' = "done"
    /\ UNCHANGED <<environ, sent, received>>

NextConstruct ==
    \/ Construct
    \/ Return

SpecConstruct == InitConstruct /\ [][NextConstruct]_vars

-----------------------------------------------------------------------------
(* Threads: validate_url called in several threads of one process.  Here pc, *)
(* frame and result are per thread; frame also keeps os.environ as it was     *)
(* when the threads started.  The steps are those between which another      *)
(* thread may run: the parts of temp_env_var and the body of its with block. *)

Threads == {1, 2}

\* the URLs the threads validate: one every check accepts, one the regex
\* refuses, one only validators.url refuses
ThreadUrls == {URL_A, URL_NOT, URL_DASH}

ThreadEnvirons == {EmptyMap, (RAISE_KEY :> "False")}

InitThreads ==
    /\ environ \in ThreadEnvirons
    /\ client = NoClient
    /\ pc = [t \in Threads |-> "called"]
    /\ \E urls \in [Threads -> ThreadUrls] :
        frame = [locals |-> [t \in Threads |->
                                [url |-> urls[t], validated |-> <<>>, original_value |-> PyNone,
                                 raised |-> NoResult]],
                 environ |-> environ]
    /\ sent = <<>>
    /\ received = <<>>
    /\ result = [t \in Threads |-> NoResult]

\* validate_url up to the with statement: the empty check, the regex, HttpUrl
ValidateUrlChecks(t) ==
    /\ pc[t] = "called"
    /\ LET url == frame.locals[t].url
           refused == IF Len(url) = 0 \/ Strip(url) = <<>>
                      THEN Raise("ValueError", "URL cannot be empty")
                      ELSE IF ~RegexMatch(Strip(url))
                      THEN Raise("ValueError", "URL does not match expected url regex")
                      ELSE HttpUrl(url)
       IN  IF refused.ok
           THEN /\ pc' = [pc EXCEPT ![t] = "getenv"]
                /\ frame' = [frame EXCEPT !.locals[t].validated = refused.value]
                /\ result' = result
           ELSE /\ pc' = [pc EXCEPT ![t] = "returned"]
                /\ frame' = frame
                /\ result' = [result EXCEPT ![t] = refused]
    /\ UNCHANGED <<client, environ, sent, received>>

\* temp_env_var: original_value = os.getenv(key)
TempEnvVarGetenv(t) ==
    /\ pc[t] = "getenv"
    /\ frame' = [frame EXCEPT !.locals[t].original_value = EnvGet(environ, RAISE_KEY)]
    /\ pc' = [pc EXCEPT ![t] = "setenv"]
    /\ UNCHANGED <<client, environ, sent, received, result>>

\* temp_env_var: os.environ[key] = value
TempEnvVarSet(t) ==
    /\ pc[t] = "setenv"
    /\ environ' = TempEnvVarEnter(environ, RAISE_KEY, "True")
    /\ pc' = [pc EXCEPT ![t] = "body"]
    /\ UNCHANGED <<client, frame, sent, received, result>>

\* the body of the with block: validators.url(url) raises on a URL it refuses
\* only while os.environ holds RAISE_VALIDATION_ERROR = "True"; otherwise it
\* returns the error, which validate_url discards
ValidatorsUrl(t) ==
    /\ pc[t] = "body"
    /\ frame' = [frame EXCEPT !.locals[t].raised =
                    IF ~ValidatorsUrlOk(frame.locals[t].validated)
                       /\ EnvGet(environ, RAISE_KEY) = PyStr("True")
                    THEN Raise("validators.ValidationError", "url")
                    ELSE NoResult]
    /\ pc' = [pc EXCEPT ![t] = "finally"]
    /\ UNCHANGED <<client, environ, sent, received, result>>

\* temp_env_var: the finally clause, then validate_url returns the URL or the
\* exception goes on; del os.environ[key] raises KeyError when the key is gone
TempEnvVarFinally(t) ==
    /\ pc[t] = "finally"
    /\ LET mine == frame.locals[t]
           restores == ~IsNone(mine.original_value)
       IN  /\ environ' = TempEnvVarExit(environ, RAISE_KEY, restores,
                                        IF restores THEN mine.original_value.v ELSE "")
           /\ result' = [result EXCEPT ![t] =
                            IF ~restores /\ RAISE_KEY \notin DOMAIN environ
                            THEN Raise("KeyError", RAISE_KEY)
                            ELSE IF mine.raised # NoResult THEN mine.raised
                            ELSE Ok(mine.validated)]
    /\ pc' = [pc EXCEPT ![t] = "returned"]
    /\ UNCHANGED <<client, frame, sent, received>>

NextThreads ==
    \E t \in Threads :
        \/ ValidateUrlChecks(t)
        \/ TempEnvVarGetenv(t)
        \/ TempEnvVarSet(t)
        \/ ValidatorsUrl(t)
        \/ TempEnvVarFinally(t)

SpecThreads == InitThreads /\ [][NextThreads]_vars

-----------------------------------------------------------------------------
(* get_all_urls against a service that may go on answering with a cursor:    *)
(* the run is followed without a bound on its pages, and sent and received   *)
(* keep the last two requests and responses.                                 *)

LastTwo(s) == IF Len(s) <= 2 THEN s ELSE SubSeq(s, Len(s) - 1, Len(s))

\* what the listing service answers: pages with each cursor value, a page
\* without the key, failures
PagingResponses ==
    {NetworkError, Response(500, ErrorBody), Response(HTTP_UNAUTHORIZED, ErrorBody),
     Response(200, HtmlBody)}
    \cup {Response(200, PageBody(i, k)) : i \in {1, 2, 3, 8}, k \in 0..Len(CursorValues)}

\* the service answers a page request of get_all_urls: one iteration of its loop
GetAllUrlsAnswer ==
    /\ pc = "awaiting"
    /\ frame.op = "get_all_urls"
    /\ \E resp \in PagingResponses :
        LET it == GetAllUrlsIteration(frame.all_urls, resp)
            c == ClientInit(frame.args.api_key, frame.args.base_url, frame.args.timeout,
                            FALSE, environ).value
            next == GetAllUrlsRequest(c, it.next_cursor)
        IN  /\ received' = LastTwo(Append(received, resp))
            /\ frame' = [frame EXCEPT !.all_urls = it.all_urls, !.next_cursor = it.next_cursor]
            /\ IF it.goes_on /\ next.sends
               THEN /\ pc' = "awaiting"
                    /\ sent' = LastTwo(Append(sent, next.request))
                    /\ result' = NoResult
               ELSE /\ pc' = "done"
                    /\ sent' = sent
                    /\ result' = Ok(PySet(it.all_urls))
    /\ UNCHANGED <<client, environ>>

NextPaging ==
    \/ GetAllUrls
    \/ GetAllUrlsAnswer
    \/ Return

\* every request is answered, by a response or by the failure the timeout of
\* the httpx client raises
SpecPaging == Init /\ [][NextPaging]_vars /\ WF_vars(GetAllUrlsAnswer)

-----------------------------------------------------------------------------
(* What a run shows of the listing service: the payloads it sent, read from  *)
(* the raw JSON (wire names), not from what the library made of them         *)

\* the responses that are listing pages the library accepts
AcceptedPages == {resp \in Responses : GetBookmarksPagedFinish(resp).ok}

PageAccepted(resp) == resp \in AcceptedPages

\* nextCursor of a page payload, None when the key is absent
CursorOf(resp) == Get(resp.json.v, "nextCursor")

\* the URL a bookmark payload carries: url of a link, sourceUrl of a text or an
\* asset, none otherwise
PayloadUrl(b) ==
    LET content == b.v.content.v
    IN  IF content.type = PyStr(S_link) THEN Get(content, "url")
        ELSE IF content.type \in {PyStr(S_text), PyStr(S_asset)} THEN Get(content, "sourceUrl")
        ELSE PyNone

\* the URLs of the bookmarks of each accepted page payload
UrlsOfPayload ==
    [resp \in AcceptedPages |->
        {PayloadUrl(resp.json.v.bookmarks.v[i]).v :
            i \in {j \in 1..Len(resp.json.v.bookmarks.v) :
                     ~IsNone(PayloadUrl(resp.json.v.bookmarks.v[j]))}}]

PayloadUrls(resp) == UrlsOfPayload[resp]

\* the URLs of the first n responses, all of them accepted pages
UrlsOfPages(n) == UNION {PayloadUrls(received[i]) : i \in 1..n}

\* get_all_urls has returned after at least one page request
GetAllUrlsDone == pc = "done" /\ frame.op = "get_all_urls" /\ Len(received) > 0

\* the number of accepted pages a finished get_all_urls run fetched: all of the
\* responses, or all but the last
PagesFetched ==
    IF PageAccepted(received[Len(received)]) THEN Len(received) ELSE Len(received) - 1

\* page request i carries the cursor of page i - 1, the first carries none
FollowsCursor ==
    \A i \in 1..Len(sent) :
        Get(sent[i].params.v, "cursor") = IF i = 1 THEN PyNone ELSE CursorOf(received[i - 1])

-----------------------------------------------------------------------------
(* get_all_urls *)

\* C1, as stated: get_all_urls follows nextCursor until it is null and returns
\* exactly the set of the URLs (link url, text and asset sourceUrl) of the
\* bookmarks of all pages.
C1_AsStated ==
    (GetAllUrlsDone /\ \A i \in 1..Len(received) : PageAccepted(received[i]))
    => /\ FollowsCursor
       /\ \A i \in 1..Len(received) :
            IsNone(CursorOf(received[i])) <=> i = Len(received)
       /\ result = Ok(PySet(UrlsOfPages(Len(received))))

\* C1: get_all_urls requests page after page, each request carrying the
\* nextCursor of the page before, until a page's nextCursor is null or the empty
\* string or a page fails; it returns exactly the set of the non-empty URLs
\* (link url, text and asset sourceUrl) of the bookmarks of the pages it
\* accepted, duplicates collapsed.
C1_DrainsListing ==
    GetAllUrlsDone
    => /\ FollowsCursor
       /\ Len(sent) = Len(received)
       /\ \A i \in 1..Len(received) - 1 :
            PageAccepted(received[i]) /\ CursorOf(received[i]) \notin {PyNone, PyStr(<<>>)}
       /\ PageAccepted(received[Len(received)])
            => CursorOf(received[Len(received)]) \in {PyNone, PyStr(<<>>)}
       /\ result = Ok(PySet(UrlsOfPages(PagesFetched) \ {<<>>}))

\* page 1 with cursor "c1" and a link to A, page 2 with a null cursor and a text
\* with sourceUrl B: the result is {A, B}
C1_Witness ==
    /\ GetAllUrlsDone
    /\ received = <<Response(200, PageBody(2, 3)), Response(200, PageBody(3, 1))>>
    /\ result = Ok(PySet({URL_A, URL_B}))

\* C2: when page k of get_all_urls fails (network or API error, 401, or a
\* payload that fails validation), get_all_urls does not raise, returns exactly
\* the URLs of pages 1..k-1, and has made no request after the k-th.
C2_StopsOnPageError ==
    (GetAllUrlsDone /\ ~PageAccepted(received[Len(received)]))
    => /\ result.ok
       /\ result.value = PySet(UrlsOfPages(Len(received) - 1) \ {<<>>})
       /\ Len(sent) = Len(received)

\* page 1 gave A and a cursor, page 2 answers 500: the result is {A}
C2_Witness ==
    /\ GetAllUrlsDone
    /\ Len(received) = 2
    /\ received[1] = Response(200, PageBody(2, 3))
    /\ received[2].status = 500
    /\ result = Ok(PySet({URL_A}))

\* the listing pages the service may send with well-formed bookmarks and the
\* cursor CursorValues[k], or without the nextCursor key when k = 0
WellFormedPages(k) ==
    {Response(200, PageBody(i, k)) :
        i \in {j \in 1..Len(BookmarkLists) :
                 \A n \in 1..Len(BookmarkLists[j]) : BookmarkOk(BookmarkLists[j][n])}}

\* C3, as stated: a listing page whose nextCursor is null or absent is the last
\* page: it validates, its URLs are in the result of get_all_urls and no
\* further request is made.
C3_AsStated ==
    (GetAllUrlsDone /\ received[Len(received)] \in WellFormedPages(0) \cup WellFormedPages(1))
    => /\ PageAccepted(received[Len(received)])
       /\ result.ok
       /\ PayloadUrls(received[Len(received)]) \ {<<>>} \subseteq result.value.v
       /\ Len(sent) = Len(received)

\* C3: a listing page whose nextCursor is null is the last page: it validates,
\* its URLs are in the result of get_all_urls and no further request is made.
\* A page without the nextCursor key does not validate: get_all_urls stops and
\* returns the URLs of the pages before it only.
C3_NullCursorIsLast ==
    /\ (GetAllUrlsDone /\ received[Len(received)] \in WellFormedPages(1))
        => /\ PageAccepted(received[Len(received)])
           /\ result.ok
           /\ PayloadUrls(received[Len(received)]) \ {<<>>} \subseteq result.value.v
           /\ Len(sent) = Len(received)
    /\ (GetAllUrlsDone /\ received[Len(received)] \in WellFormedPages(0))
        => /\ ~PageAccepted(received[Len(received)])
           /\ result = Ok(PySet(UrlsOfPages(Len(received) - 1) \ {<<>>}))
           /\ Len(sent) = Len(received)

\* the only page has a link to A and a null nextCursor: the result is {A}
C3_Witness ==
    /\ GetAllUrlsDone
    /\ received = <<Response(200, PageBody(2, 1))>>
    /\ result = Ok(PySet({URL_A}))

\* the only page has a link to A and no nextCursor key: the result is empty
C3_AbsentWitness ==
    /\ GetAllUrlsDone
    /\ received = <<Response(200, PageBody(2, 0))>>
    /\ result = Ok(PySet({}))

-----------------------------------------------------------------------------
(* Errors of the service *)

\* the operation has returned or raised, and the last response it got has this status
DoneOn(status) ==
    /\ pc = "done"
    /\ Len(received) > 0
    /\ ~received[Len(received)].neterr
    /\ received[Len(received)].status = status

\* the operations that catch every exception of their requests
CatchingOps == {"get_bookmark_id_by_url", "get_all_urls"}

\* the operations that return what _call returns
CallOps == {"update_bookmark", "add_bookmark_tags", "delete_bookmark_tags"}

\* C4, as stated: for every public operation, get_bookmark_id_by_url and
\* get_all_urls among them, a 401 surfaces as AuthenticationError and a 404 as
\* an APIError with the status code 404.
C4_AsStated ==
    /\ DoneOn(401) => (~result.ok /\ result.exc = "AuthenticationError")
    /\ DoneOn(404) => (~result.ok /\ result.exc = "APIError" /\ result.msg.status = PyInt(404))

\* C4: for every public operation but get_bookmark_id_by_url and get_all_urls, a
\* 401 surfaces as AuthenticationError and a 404 whose body is text as an APIError
\* with the status code 404; on either status get_bookmark_id_by_url returns None and
\* get_all_urls returns the URLs of the pages before.
C4_ErrorsSurface ==
    /\ (DoneOn(401) /\ frame.op \notin CatchingOps)
        => (~result.ok /\ result.exc = "AuthenticationError")
    /\ (DoneOn(404) /\ frame.op \notin CatchingOps /\ received[1].utf8)
        => (~result.ok /\ result.exc = "APIError" /\ result.msg.status = PyInt(404))
    /\ ((DoneOn(401) \/ DoneOn(404)) /\ frame.op = "get_bookmark_id_by_url")
        => result = Ok(PyNone)
    /\ ((DoneOn(401) \/ DoneOn(404)) /\ frame.op = "get_all_urls")
        => result = Ok(PySet(UrlsOfPages(Len(received) - 1) \ {<<>>}))

\* get_bookmark has raised AuthenticationError on a 401
C4_Witness ==
    /\ frame.op = "get_bookmark"
    /\ DoneOn(401)
    /\ result.exc = "AuthenticationError"

\* an operation that lets the exceptions of _call through is done on one response
CallAnswered ==
    pc = "done" /\ Len(received) = 1 /\ ~received[1].neterr /\ frame.op \notin CatchingOps

\* the outcome of the operation is the outcome of its status: 401 raises
\* AuthenticationError, a subclass of APIError, raised as it is (no cause); 204
\* returns {}; any other non-2xx raises APIError with the status code and the
\* decoded JSON body, or the raw text when the body is not JSON; any other 2xx
\* returns the payload (the decoded JSON, or the content when it is not JSON or
\* when the request accepts */*)
OutcomeOfStatus ==
       LET resp == received[1]
       IN  IF resp.status = 401
           THEN /\ ~result.ok
                /\ result.exc = "AuthenticationError"
                /\ IsA(result.exc, "APIError")
                /\ result.cause = ""
           ELSE IF resp.status = 204
           THEN frame.op \in CallOps => result = Ok(PyDict(EmptyMap))
           ELSE IF resp.status \notin 200..299
           THEN /\ ~result.ok
                /\ result.exc = "APIError"
                /\ result.msg.status = PyInt(resp.status)
                /\ result.msg.detail = IF resp.decodes THEN resp.json ELSE PyStr(resp.raw)
           ELSE /\ frame.op \in CallOps
                    => result = IF resp.decodes THEN Ok(resp.json) ELSE Ok(PyBytes(resp.raw))
                /\ frame.op = "get_asset" => result = Ok(PyBytes(resp.raw))

\* C5, as stated: _call maps every response status to exactly one outcome,
\* whatever the body: 401 raises AuthenticationError, 204 returns {}, any other
\* non-2xx raises APIError with the status code and the decoded JSON body or the
\* raw text, any other 2xx returns the payload.
C5_AsStated == CallAnswered => OutcomeOfStatus

\* C5, for the bodies that are UTF-8 text: _call maps the status of the response
\* to one outcome: 401 raises AuthenticationError, 204 returns {}, any other
\* non-2xx raises APIError with the status code and the decoded JSON body or the
\* raw text, any other 2xx returns the payload.
C5_CallOutcomes == (CallAnswered /\ received[1].utf8) => OutcomeOfStatus

\* add_bookmark_tags has returned {} on a 204
C5_Witness ==
    /\ frame.op = "add_bookmark_tags"
    /\ DoneOn(204)
    /\ result = Ok(PyDict(EmptyMap))

-----------------------------------------------------------------------------
(* Local validation of the arguments *)

\* C6: get_bookmarks_paged and search_bookmarks with a limit above 100 raise
\* ValueError("Maximum limit is 100") and send nothing; with a limit of at most
\* 100 or no limit they send exactly one request.
C6_LimitChecked ==
    (frame.op \in {"get_bookmarks_paged", "search_bookmarks"} /\ pc # "idle")
    => IF ~IsNone(frame.args.limit) /\ frame.args.limit.v > 100
       THEN /\ pc = "done"
            /\ sent = <<>>
            /\ received = <<>>
            /\ result = Raise("ValueError", "Maximum limit is 100")
       ELSE Len(sent) = 1

\* search_bookmarks with limit 101 has raised without a request
C6_Witness ==
    /\ frame.op = "search_bookmarks"
    /\ frame.args.limit = PyInt(101)
    /\ pc = "done"
    /\ sent = <<>>
    /\ result.exc = "ValueError"

\* the arguments a bookmark type requires
RequiredArgs(bookmark_type) ==
    IF bookmark_type = PyStr(S_link) THEN {"url"}
    ELSE IF bookmark_type = PyStr(S_text) THEN {"text"}
    ELSE IF bookmark_type = PyStr(S_asset) THEN {"asset_type", "asset_id"}
    ELSE {}

MissingArgs(a) == {arg \in RequiredArgs(a.bookmark_type) : IsNone(a[arg])}

\* the message that names an argument
MessageNaming(arg) ==
    CASE arg = "url" -> "Argument 'url' is required when bookmark_type is 'link'."
      [] arg = "text" -> "Argument 'text' is required when bookmark_type is 'text'."
      [] arg = "asset_type" -> "Argument 'asset_type' ('image' or 'pdf') is required when bookmark_type is 'asset'."
      [] arg = "asset_id" -> "Argument 'asset_id' is required when bookmark_type is 'asset'."

\* C7: create_bookmark of type link, text or asset without an argument the type
\* requires (url; text; asset_type or asset_id) raises a ValueError whose message
\* names a missing argument, and sends nothing.
C7_CreateArgsChecked ==
    (frame.op = "create_bookmark" /\ pc # "idle" /\ MissingArgs(frame.args) # {})
    => /\ pc = "done"
       /\ sent = <<>>
       /\ received = <<>>
       /\ ~result.ok
       /\ result.exc = "ValueError"
       /\ \E arg \in MissingArgs(frame.args) : result.msg.text = MessageNaming(arg)

\* an asset bookmark with asset_type but no asset_id has been refused
C7_Witness ==
    /\ frame.op = "create_bookmark"
    /\ frame.args.bookmark_type = PyStr(S_asset)
    /\ ~IsNone(frame.args.asset_type)
    /\ IsNone(frame.args.asset_id)
    /\ pc = "done"
    /\ sent = <<>>
    /\ result.msg.text = MessageNaming("asset_id")

TagOps == {"add_bookmark_tags", "delete_bookmark_tags"}

\* the elements of a list argument, none for None
ElementsOf(x) == IF IsList(x) THEN x.v ELSE <<>>

\* C8: the body of add_bookmark_tags and delete_bookmark_tags is {tags: [...]}
\* with one {tagId} entry per element of tag_ids, in input order, followed by
\* one {tagName} entry per element of tag_names, in input order; each value is
\* the element without its surrounding whitespace.
C8_TagsBody ==
    (frame.op \in TagOps /\ Len(sent) > 0)
    => LET ids == ElementsOf(frame.args.tag_ids)
           names == ElementsOf(frame.args.tag_names)
           body == sent[1].json
       IN  /\ IsDict(body)
           /\ DOMAIN body.v = {"tags"}
           /\ IsList(body.v.tags)
           /\ Len(body.v.tags.v) = Len(ids) + Len(names)
           /\ \A i \in 1..Len(ids) :
                body.v.tags.v[i] = PyDict([tagId |-> PyStr(Strip(ids[i].v))])
           /\ \A i \in 1..Len(names) :
                body.v.tags.v[Len(ids) + i] = PyDict([tagName |-> PyStr(Strip(names[i].v))])

\* tag_ids ["a", "b"] and tag_names ["x"] give [{tagId: a}, {tagId: b}, {tagName: x}]
C8_Witness ==
    /\ frame.op = "add_bookmark_tags"
    /\ frame.args.tag_ids = PyList(<<PyStr(<<"a">>), PyStr(<<"b">>)>>)
    /\ frame.args.tag_names = PyList(<<PyStr(<<"x">>)>>)
    /\ Len(sent) = 1
    /\ sent[1].json = PyDict([tags |-> PyList(<<PyDict([tagId |-> PyStr(<<"a">>)]),
                                               PyDict([tagId |-> PyStr(<<"b">>)]),
                                               PyDict([tagName |-> PyStr(<<"x">>)])>>)])

NonBlankStr(x) == IsStr(x) /\ \E i \in 1..Len(x.v) : ~IsSpace(x.v[i])
NonEmptyList(x) == IsList(x) /\ Len(x.v) > 0
HasBadElement(x) == IsList(x) /\ \E i \in 1..Len(x.v) : ~NonBlankStr(x.v[i])

\* C9: add_bookmark_tags and delete_bookmark_tags raise ValueError and send
\* nothing when neither tag_ids nor tag_names is a non-empty list, when either
\* is given and is not a list, or when an element is not a non-blank string.
C9_TagArgsChecked ==
    (/\ frame.op \in TagOps
     /\ pc # "idle"
     /\ \/ ~NonEmptyList(frame.args.tag_ids) /\ ~NonEmptyList(frame.args.tag_names)
        \/ ~IsNone(frame.args.tag_ids) /\ ~IsList(frame.args.tag_ids)
        \/ ~IsNone(frame.args.tag_names) /\ ~IsList(frame.args.tag_names)
        \/ HasBadElement(frame.args.tag_ids)
        \/ HasBadElement(frame.args.tag_names))
    => /\ pc = "done"
       /\ sent = <<>>
       /\ received = <<>>
       /\ ~result.ok
       /\ result.exc = "ValueError"

\* delete_bookmark_tags with tag_ids ["a", 7] has raised without a request
C9_Witness ==
    /\ frame.op = "delete_bookmark_tags"
    /\ frame.args.tag_ids = PyList(<<PyStr(<<"a">>), PyInt(7)>>)
    /\ IsNone(frame.args.tag_names)
    /\ pc = "done"
    /\ sent = <<>>
    /\ result.exc = "ValueError"

-----------------------------------------------------------------------------
(* Lookup by URL *)

\* the search has answered the lookup of example.com with an accepted page
LookupAnswered ==
    /\ frame.op = "get_bookmark_id_by_url"
    /\ pc = "done"
    /\ frame.args.url = URL_EX
    /\ Len(received) = 1
    /\ PageAccepted(received[1])

\* the bookmarks of the page that are links to "https://example.com/"
SlashMatches ==
    {i \in 1..Len(received[1].json.v.bookmarks.v) :
        /\ received[1].json.v.bookmarks.v[i].v.content.v.type = PyStr(S_link)
        /\ PayloadUrl(received[1].json.v.bookmarks.v[i]) = PyStr(URL_EX_SLASH)}

\* validate_url("https://example.com") and validate_url("https://example.com/")
ValidatedBare == ValidateUrl(URL_EX)
ValidatedSlash == ValidateUrl(URL_EX_SLASH)

\* C10, as stated: validate_url("https://example.com") equals
\* validate_url("https://example.com/"), and get_bookmark_id_by_url(
\* "https://example.com") returns the id of a bookmark of the search page whose
\* link URL is "https://example.com/".
C10_AsStated ==
    /\ ValidatedBare = ValidatedSlash
    /\ (LookupAnswered /\ SlashMatches # {})
        => \E i \in SlashMatches : result = Ok(received[1].json.v.bookmarks.v[i].v.id)

\* C10, when no bookmark of the page before the match has a URL that
\* validate_url refuses: the lookup returns the id of the match.
C10_MatchesModuloSlash ==
    /\ ValidatedBare = Ok(URL_EX_SLASH)
    /\ ValidatedSlash = Ok(URL_EX_SLASH)
    /\ (/\ LookupAnswered
        /\ SlashMatches # {}
        /\ \A j \in 1..(SetMin(SlashMatches) - 1) :
               LET url == PayloadUrl(received[1].json.v.bookmarks.v[j])
               IN  Truthy(url) => ValidateUrl(Strip(url.v)).ok)
        => result = Ok(received[1].json.v.bookmarks.v[SetMin(SlashMatches)].v.id)

\* the page holds the one link to "https://example.com/": its id is returned
C10_Witness ==
    /\ LookupAnswered
    /\ received[1].json.v.bookmarks.v = <<BmLinkEx>>
    /\ result = Ok(BmLinkEx.v.id)

\* a link to "not-a-url" comes before the link to "https://example.com/": the
\* lookup returns None
C10_AbortedWitness ==
    /\ LookupAnswered
    /\ received[1].json.v.bookmarks.v = <<BmLinkNot, BmLinkEx>>
    /\ result = Ok(PyNone)

\* the lookup was invoked with a non-blank URL that validate_url accepts
LookupOfValidUrl ==
    /\ frame.op = "get_bookmark_id_by_url"
    /\ pc # "idle"
    /\ Truthy(PyStr(Strip(frame.args.url)))
    /\ ValidateUrl(Strip(frame.args.url)).ok

\* the normalized URL of a bookmark payload, None when it has no URL or one
\* that validate_url refuses
NormalizedUrlOf(b) ==
    IF ~Truthy(PayloadUrl(b)) THEN PyNone
    ELSE LET v == ValidateUrl(Strip(PayloadUrl(b).v))
         IN  IF v.ok THEN PyStr(v.value) ELSE PyNone

\* the bookmarks of the search page whose normalized URL is the normalized query URL
LookupMatches ==
    {i \in 1..Len(received[1].json.v.bookmarks.v) :
        NormalizedUrlOf(received[1].json.v.bookmarks.v[i])
            = PyStr(ValidateUrl(Strip(frame.args.url)).value)}

\* C11, as stated: for a valid non-blank query URL, get_bookmark_id_by_url sends
\* exactly one search request (limit 100, no cursor), never a second one, and
\* returns the id of the first bookmark of the page whose normalized URL equals
\* the normalized query URL, or None when no bookmark of the page matches.
C11_AsStated ==
    LookupOfValidUrl
    => /\ Len(sent) = 1
       /\ sent[1].url.endpoint = Endpoint("bookmarks/search", <<>>)
       /\ Get(sent[1].params.v, "limit") = PyInt(100)
       /\ Get(sent[1].params.v, "cursor") = PyNone
       /\ (pc = "done" /\ PageAccepted(received[1]))
            => result = IF LookupMatches = {} THEN Ok(PyNone)
                        ELSE Ok(received[1].json.v.bookmarks.v[SetMin(LookupMatches)].v.id)

\* C11, except on the pages where a bookmark before the first match has a URL
\* that validate_url refuses: one search request (limit 100, no cursor, the
\* normalized URL as the query), and the id of the first match or None.
C11_OneSearchFirstMatch ==
    LookupOfValidUrl
    => /\ Len(sent) = 1
       /\ sent[1].url.endpoint = Endpoint("bookmarks/search", <<>>)
       /\ Get(sent[1].params.v, "limit") = PyInt(100)
       /\ Get(sent[1].params.v, "cursor") = PyNone
       /\ Get(sent[1].params.v, "q") = PyStr(ValidateUrl(Strip(frame.args.url)).value)
       /\ (/\ pc = "done"
           /\ PageAccepted(received[1])
           /\ \A j \in 1..Len(received[1].json.v.bookmarks.v) :
                (LookupMatches = {} \/ j < SetMin(LookupMatches))
                => (Truthy(PayloadUrl(received[1].json.v.bookmarks.v[j]))
                    => ~IsNone(NormalizedUrlOf(received[1].json.v.bookmarks.v[j]))))
            => result = IF LookupMatches = {} THEN Ok(PyNone)
                        ELSE Ok(received[1].json.v.bookmarks.v[SetMin(LookupMatches)].v.id)
       /\ (pc = "done" /\ ~PageAccepted(received[1])) => result = Ok(PyNone)

\* the page has a cursor and the one bookmark, a link to A: the lookup of A
\* returns its id and has sent one request
C11_Witness ==
    /\ LookupOfValidUrl
    /\ pc = "done"
    /\ frame.args.url = URL_A
    /\ received = <<Response(200, PageBody(2, 3))>>
    /\ Len(sent) = 1
    /\ result = Ok(BmLinkA.v.id)

-----------------------------------------------------------------------------
(* Validation of the payloads *)

\* get_bookmark or create_bookmark has been answered 200 with a bookmark
\* payload and has returned or raised
BookmarkAnswered ==
    /\ frame.op \in {"get_bookmark", "create_bookmark"}
    /\ pc = "done"
    /\ Len(received) = 1
    /\ received[1] \in {Response(200, b) : b \in BookmarkBodies}

\* the type of the content of the payload, None when the key is absent
PayloadType == Get(received[1].json.v.content.v, "type")

\* the class of each content type
VariantOf(type) ==
    CASE type = S_link -> "ContentTypeLink"
      [] type = S_text -> "ContentTypeText"
      [] type = S_asset -> "ContentTypeAsset"
      [] type = S_unknown -> "ContentTypeUnknown"

KnownTypes == {S_link, S_text, S_asset, S_unknown}

C13_AsStated ==
    (BookmarkAnswered /\ result.ok)
    => /\ IsStr(PayloadType)
       /\ PayloadType.v \in KnownTypes
       /\ result.value.v.content.cls = VariantOf(PayloadType.v)

\* C13: a content with a type key validates as the variant of that type only;
\* a content without the key is classified by its other keys: as a link when
\* it has a url (and neither text nor assetId), as unknown when it has none of
\* url, text, assetId.  The validated content is one variant, with the type of
\* that variant.
C13_VariantOfContent ==
    (BookmarkAnswered /\ result.ok)
    => LET content == received[1].json.v.content.v
           variant == result.value.v.content
       IN  /\ IsStr(PayloadType)
                => (PayloadType.v \in KnownTypes /\ variant.cls = VariantOf(PayloadType.v))
           /\ (IsNone(PayloadType) /\ DOMAIN content = {"url"})
                => variant.cls = "ContentTypeLink"
           /\ (IsNone(PayloadType) /\ DOMAIN content = {})
                => variant.cls = "ContentTypeUnknown"
           /\ \E type \in KnownTypes :
                variant.cls = VariantOf(type) /\ variant.v.type = PyStr(type)

\* the content {url: A}, without type, has been validated as a link
C13_Witness ==
    /\ BookmarkAnswered
    /\ received[1].json = BmTypeless
    /\ result.ok
    /\ result.value.v.content.cls = "ContentTypeLink"
    /\ result.value.v.content.v.type = PyStr(S_link)

\* attach_bookmark_asset has been answered 200 with a bookmark asset payload
BookmarkAssetAnswered ==
    /\ frame.op = "attach_bookmark_asset"
    /\ pc = "done"
    /\ Len(received) = 1
    /\ received[1] \in {Response(200, b) : b \in BookmarkAssetBodies}

\* the asset types of the claim
ClaimedAssetTypes ==
    {S_linkHtmlContent, S_screenshot, S_pdf, S_assetScreenshot, S_bannerImage,
     S_fullPageArchive, S_video, S_bookmarkAsset, S_precrawledArchive, S_userUploaded,
     S_avatar, S_unknown}

\* C14, as stated: a BookmarkAsset validates if and only if its assetType is one
\* of linkHtmlContent, screenshot, pdf, assetScreenshot, bannerImage,
\* fullPageArchive, video, bookmarkAsset, precrawledArchive, userUploaded,
\* avatar, unknown.
C14_AsStated ==
    BookmarkAssetAnswered
    => (result.ok <=> received[1].json.v.assetType.v \in ClaimedAssetTypes)

\* C14, for the nine types BookmarkAsset declares: a BookmarkAsset validates if
\* and only if its assetType is one of them.
C14_DeclaredAssetTypes ==
    /\ BookmarkAssetTypes = ClaimedAssetTypes \ {S_pdf, S_userUploaded, S_avatar}
    /\ BookmarkAssetAnswered
        => /\ result.ok <=> received[1].json.v.assetType.v \in BookmarkAssetTypes
           /\ ~result.ok => result.exc = "pydantic.ValidationError"

\* attach_bookmark_asset has raised a validation error on assetType "pdf"
C14_PdfWitness ==
    /\ BookmarkAssetAnswered
    /\ received[1].json = BookmarkAssetPayload(S_pdf)
    /\ result.exc = "pydantic.ValidationError"

-----------------------------------------------------------------------------
(* Serialization of the models *)

\* the caller has dumped the model an operation returned
Dumped == pc = "done" /\ frame.op = "model_dump"

\* the caller has validated the dump of the model an operation returned
Revalidated == pc = "done" /\ frame.op = "model_validate"

\* the dump d holds every attribute of the model x, and of the models nested in
\* it, with its value: under its alias (wire), or under its attribute name
RECURSIVE KeyedBy(_, _, _)
KeyedBy(x, d, wire) ==
    CASE x.t = "model" ->
            /\ IsDict(d)
            /\ DOMAIN d.v = {IF wire THEN AliasOf(x.cls, n) ELSE n : n \in DOMAIN x.v}
            /\ \A n \in DOMAIN x.v :
                KeyedBy(x.v[n], d.v[IF wire THEN AliasOf(x.cls, n) ELSE n], wire)
      [] x.t = "list" ->
            /\ IsList(d)
            /\ Len(d.v) = Len(x.v)
            /\ \A i \in 1..Len(x.v) : KeyedBy(x.v[i], d.v[i], wire)
      [] OTHER -> d = x

\* C15, as stated: the default serialization call, model_dump(), emits every
\* field under its wire (camelCase) key, nested models included.
C15_AsStated ==
    (Dumped /\ ~frame.args.by_alias) => KeyedBy(frame.args.self, result.value, TRUE)

\* C15: model_dump(by_alias=True) emits every field under its wire key, nested
\* models included; the default call, model_dump(), emits every field under its
\* attribute (snake_case) name.
C15_KeysOfDump ==
    Dumped
    => /\ KeyedBy(frame.args.self, result.value, frame.args.by_alias)
       /\ frame.args.self.cls = "Bookmark"
            => /\ ("createdAt" \in DOMAIN result.value.v) <=> frame.args.by_alias
               /\ ("created_at" \in DOMAIN result.value.v) <=> ~frame.args.by_alias

\* the default call has dumped a link bookmark: created_at and, in its
\* content, image_url
C15_Witness ==
    /\ Dumped
    /\ ~frame.args.by_alias
    /\ frame.args.self.cls = "Bookmark"
    /\ frame.args.self.v.content.cls = "ContentTypeLink"
    /\ "created_at" \in DOMAIN result.value.v
    /\ "image_url" \in DOMAIN result.value.v.content.v
    /\ "imageUrl" \notin DOMAIN result.value.v.content.v

\* the dump d reproduces every key of the payload p with its value, nested
\* dicts and lists included, but for the keys of skip
RECURSIVE Reproduces(_, _, _)
Reproduces(p, d, skip) ==
    CASE IsDict(p) ->
            /\ IsDict(d)
            /\ \A k \in DOMAIN p.v \ skip :
                k \in DOMAIN d.v /\ Reproduces(p.v[k], d.v[k], skip)
      [] IsList(p) ->
            /\ IsList(d)
            /\ Len(d.v) = Len(p.v)
            /\ \A i \in 1..Len(p.v) : Reproduces(p.v[i], d.v[i], skip)
      [] OTHER -> d = p

\* the model dumped is the bookmark of the payload of a get_bookmark or
\* create_bookmark, whose content has a type key
BookmarkDumped ==
    /\ Dumped
    /\ frame.args.by_alias
    /\ frame.args.self.cls = "Bookmark"
    /\ Len(received) = 1
    /\ received[1] \in {Response(200, b) : b \in BookmarkBodies}
    /\ IsStr(PayloadType)

\* the keys of the service that no model declares
UndeclaredKeys == {"source", "userId", "pdfAssetId", "crawlStatus"}

\* C16, as stated: the dump of the validated payload p of a bookmark reproduces
\* every field of p with its value, source, userId, pdfAssetId and crawlStatus
\* included; validating the dump of an entity gives the entity.
C16_AsStated ==
    /\ BookmarkDumped => Reproduces(received[1].json, result.value, {})
    /\ Revalidated => result = Ok(frame.args.self)

\* C16, for the declared fields: the dump of the validated payload p of a
\* bookmark reproduces every field of p but source, userId, pdfAssetId and
\* crawlStatus; validating the dump of an entity, by alias or by name, gives
\* the entity.
C16_DeclaredFieldsRoundTrip ==
    /\ BookmarkDumped => Reproduces(received[1].json, result.value, UndeclaredKeys)
    /\ Revalidated => result = Ok(frame.args.self)

\* the bookmark of the payload with source, userId, pdfAssetId and crawlStatus
\* has been dumped by alias, without them
C16_Witness ==
    /\ BookmarkDumped
    /\ received[1].json = BmService
    /\ "source" \notin DOMAIN result.value.v
    /\ "pdfAssetId" \notin DOMAIN result.value.v.content.v
    /\ result.value.v.content.v.url = PyStr(URL_A)

\* the dump by name of a page of bookmarks has been validated to the page
C16_RevalidatedWitness ==
    /\ Revalidated
    /\ frame.args.self.cls = "PaginatedBookmarks"
    /\ Len(frame.args.self.v.bookmarks.v) > 0
    /\ "next_cursor" \in DOMAIN frame.args.obj.v
    /\ result = Ok(frame.args.self)

-----------------------------------------------------------------------------
(* The request _call sends and the payload it returns *)

\* the caller has invoked _call, whose request is sent
CallSent == frame.op = "_call" /\ Len(sent) = 1

\* the headers the caller gave to _call
GivenHeaders ==
    IF IsDict(frame.args.extra_headers) THEN frame.args.extra_headers.v ELSE EmptyMap

\* the names of the default headers
DefaultNames == {"Content-Type", "Accept", "Authorization"}

\* the value of each default header
DefaultValue(name) ==
    CASE name = "Content-Type" -> <<"application/json">>
      [] name = "Accept" -> <<"application/json">>
      [] name = "Authorization" -> <<"Bearer", client.api_key>>

C18_ParamsSent ==
    CallSent
    => LET given == frame.args.params
           params == sent[1].params
       IN  IF IsDict(given)
           THEN /\ IsDict(params)
                /\ DOMAIN params.v = {k \in DOMAIN given.v : given.v[k] # PyNone}
                /\ \A k \in DOMAIN params.v : params.v[k] = given.v[k]
           ELSE params = given

\* _call has sent q="", limit=0 and includeContent=False without the cursor None
C18_Witness ==
    /\ CallSent
    /\ IsDict(frame.args.params)
    /\ DOMAIN frame.args.params.v = {"q", "limit", "includeContent", "cursor"}
    /\ sent[1].params =
        PyDict([q |-> PyStr(<<>>), limit |-> PyInt(0), includeContent |-> PyBool(FALSE)])

\* _call has returned or raised on a 2xx response other than 204
CallSucceeded ==
    /\ frame.op = "_call"
    /\ pc = "done"
    /\ Len(received) = 1
    /\ ~received[1].neterr
    /\ IsSuccess(received[1].status)
    /\ received[1].status # HTTP_NO_CONTENT

\* the caller of _call asked for Accept: */*
AcceptsAny == "Accept" \in DOMAIN GivenHeaders /\ GivenHeaders["Accept"] = <<"*/*">>

\* what C19 says _call returns
PayloadOfSuccess ==
    result = IF AcceptsAny THEN Ok(PyBytes(received[1].raw))
             ELSE IF received[1].decodes THEN Ok(received[1].json)
             ELSE Ok(PyBytes(received[1].raw))

\* C19, as stated: on a success _call returns the raw content when the caller
\* asked for Accept: */*, else the decoded JSON, else (the body does not decode)
\* the raw content, and never raises.
C19_AsStated == CallSucceeded => PayloadOfSuccess

\* C19, for the bodies that are UTF-8 text: on a success _call returns the raw
\* content when the caller asked for Accept: */*, whatever the body, else the
\* decoded JSON, else the raw content; a body that is not UTF-8 raises
\* UnicodeDecodeError unless the caller asked for Accept: */*.
C19_PayloadOfSuccess ==
    /\ (CallSucceeded /\ (received[1].utf8 \/ AcceptsAny)) => PayloadOfSuccess
    /\ (CallSucceeded /\ ~received[1].utf8 /\ ~AcceptsAny)
        => (~result.ok /\ result.exc = "UnicodeDecodeError")

\* _call has returned the raw content of a JSON body for Accept: */*
C19_Witness ==
    /\ CallSucceeded
    /\ AcceptsAny
    /\ received[1].decodes
    /\ result = Ok(PyBytes(received[1].raw))

\* _call without Accept: */* has raised UnicodeDecodeError on a 200 whose body is
\* not UTF-8
C19_BinaryWitness ==
    /\ CallSucceeded
    /\ ~AcceptsAny
    /\ received[1] = Response(200, BinaryBody)
    /\ result.exc = "UnicodeDecodeError"

\* the last request of the operation has failed in the network
NetworkFailed == pc = "done" /\ Len(received) > 0 /\ received[Len(received)].neterr

\* every request but the last has its response and no response is left over
OneRequestAtATime ==
    /\ Len(sent) - Len(received) \in {0, 1}
    /\ pc = "awaiting" <=> Len(sent) = Len(received) + 1
    /\ frame.op # "get_all_urls" => Len(sent) <= 1

\* no request follows a response that is a failure
NoRequestAfterFailure ==
    \A i \in 1..Len(received) :
        (received[i].neterr \/ ~IsSuccess(received[i].status)) => Len(sent) = i

\* C20, as stated: a network failure of the request of an operation surfaces as
\* APIError chaining the cause, for every operation; no request is issued again.
C20_AsStated ==
    /\ NetworkFailed
        => (~result.ok /\ result.exc = "APIError" /\ result.cause = "httpx.RequestError")
    /\ OneRequestAtATime
    /\ NoRequestAfterFailure

\* C20: a network failure of the request of an operation surfaces as APIError
\* chaining the cause, for every operation but get_bookmark_id_by_url, which
\* returns None, and get_all_urls, which returns the URLs of the pages before;
\* each _call sends one request and none follows a failure.
C20_NetworkFailure ==
    /\ (NetworkFailed /\ frame.op \notin CatchingOps)
        => (~result.ok /\ result.exc = "APIError" /\ result.cause = "httpx.RequestError")
    /\ (NetworkFailed /\ frame.op = "get_bookmark_id_by_url") => result = Ok(PyNone)
    /\ (NetworkFailed /\ frame.op = "get_all_urls")
        => result = Ok(PySet(UrlsOfPages(Len(received) - 1) \ {<<>>}))
    /\ OneRequestAtATime
    /\ NoRequestAfterFailure

\* _call has raised APIError from the RequestError of its one request
C20_Witness ==
    /\ frame.op = "_call"
    /\ NetworkFailed
    /\ Len(sent) = 1
    /\ result.exc = "APIError"
    /\ result.cause = "httpx.RequestError"

-----------------------------------------------------------------------------
(* Construction of the client *)

\* __init__ has returned or raised
Constructed == pc = "done" /\ frame.op = "__init__"

\* the argument is given: neither None nor ""
Given(arg) == arg # PyNone /\ arg.v # ""

\* os.environ holds a value for the variable: it is set, and not to ""
InEnviron(key) == key \in DOMAIN environ /\ environ[key] # ""

C21_FailedWitness ==
    /\ Constructed
    /\ result.exc = "ValueError"
    /\ Given(frame.args.api_key)
    /\ frame.args.base_url = PyNone
    /\ "KARAKEEP_BASEURL" \notin DOMAIN environ

-----------------------------------------------------------------------------
(* Calls in several threads *)

\* every thread has returned or raised
AllReturned == \A t \in Threads : pc[t] = "returned"

\* C22, as stated: under any interleaving of validate_url in different threads,
\* every call ends as it would alone, and once all have ended os.environ is as it
\* was at the start.
C22_AsStated ==
    /\ \A t \in Threads :
        pc[t] = "returned" => result[t] = ValidateUrl(frame.locals[t].url)
    /\ AllReturned => environ = frame.environ

\* C22, for a call that no other overlaps: a validate_url that ends before any
\* other thread has started ends as it would alone and leaves os.environ as it
\* was.
C22_AloneUnaffected ==
    \A t \in Threads :
        (pc[t] = "returned" /\ \A o \in Threads \ {t} : pc[o] = "called")
        => /\ result[t] = ValidateUrl(frame.locals[t].url)
           /\ environ = frame.environ

\* two threads have validated the same valid URL; one has raised KeyError and
\* os.environ is no more what it was
C22_KeyErrorWitness ==
    /\ AllReturned
    /\ \A t \in Threads : frame.locals[t].url = URL_A
    /\ \E t \in Threads : result[t].exc = "KeyError"

\* all threads have ended and RAISE_VALIDATION_ERROR is left set to "True"
C22_LeftSetWitness ==
    /\ AllReturned
    /\ RAISE_KEY \notin DOMAIN frame.environ
    /\ RAISE_KEY \in DOMAIN environ
    /\ environ[RAISE_KEY] = "True"

\* a thread has returned a URL that validators.url refuses, as the other thread
\* had removed RAISE_VALIDATION_ERROR
C22_AcceptedWitness ==
    \E t \in Threads :
        /\ pc[t] = "returned"
        /\ frame.locals[t].url = URL_DASH
        /\ result[t].ok
        /\ ~ValidateUrl(URL_DASH).ok

-----------------------------------------------------------------------------
(* validate_url and the lookup on a blank URL *)

\* validate_url has returned or raised
UrlValidated == pc = "done" /\ frame.op = "validate_url"

\* the inputs of the claim that do not match the pattern
UnmatchedUrls == {URL_NOT, URL_HTTP_BARE, URL_FTP_BARE}

\* the http and https inputs with a dot-separated host
HttpDottedUrls == {URL_A, URL_EX, URL_EX_UPPER, URL_DASH}

\* C23, as stated: validate_url raises a ValueError when the trimmed input is
\* empty or does not match the pattern, and returns a non-empty normalized
\* string for every http or https URL with a dot-separated host.
C23_AsStated ==
    UrlValidated
    => /\ (Strip(frame.args.url) = <<>> \/ frame.args.url \in UnmatchedUrls)
            => (~result.ok /\ IsA(result.exc, "ValueError"))
       /\ frame.args.url \in HttpDottedUrls
            => (result.ok /\ result.value.v # <<>>)

\* C23: validate_url raises ValueError when the trimmed input is empty or does
\* not match the pattern, and returns a non-empty normalized string for the http
\* and https URLs that HttpUrl and validators.url accept too; a URL that matches
\* the pattern is refused by HttpUrl when its scheme is ftp (a pydantic
\* ValidationError, which is a ValueError) and by validators.url when a label of
\* its host starts with a hyphen (a validators ValidationError, which is not).
C23_ValidateUrl ==
    UrlValidated
    => LET url == frame.args.url
       IN  /\ (Strip(url) = <<>> \/ url \in UnmatchedUrls)
                => (~result.ok /\ result.exc = "ValueError")
           /\ url \in HttpDottedUrls \ {URL_DASH}
                => (result.ok /\ result.value.v # <<>>)
           /\ url = URL_EX => result = Ok(PyStr(URL_EX_SLASH))
           /\ url = URL_EX_UPPER => result = Ok(PyStr(URL_EX_SLASH))
           /\ url = URL_FTP
                => (~result.ok /\ result.exc = "pydantic.ValidationError"
                    /\ IsA(result.exc, "ValueError"))
           /\ url = URL_DASH
                => (~result.ok /\ result.exc = "validators.ValidationError"
                    /\ ~IsA(result.exc, "ValueError"))

\* validate_url has raised the error of validators.url on "http://a.-b.co"
C23_Witness ==
    /\ UrlValidated
    /\ frame.args.url = URL_DASH
    /\ result.exc = "validators.ValidationError"

\* validate_url has returned " HTTPS://Example.COM:443 " normalized
C23_NormalizedWitness ==
    /\ UrlValidated
    /\ frame.args.url = URL_EX_UPPER
    /\ result = Ok(PyStr(URL_EX_SLASH))

\* C24: get_bookmark_id_by_url with an empty or whitespace-only URL returns None
\* and sends no request.
C24_BlankUrlIsNone ==
    (frame.op = "get_bookmark_id_by_url" /\ Strip(frame.args.url) = <<>>)
    => /\ pc = "done"
       /\ result = Ok(PyNone)
       /\ sent = <<>>
       /\ received = <<>>

\* get_bookmark_id_by_url("  ") has returned None with nothing sent
C24_Witness ==
    /\ frame.op = "get_bookmark_id_by_url"
    /\ frame.args.url = URL_BLANK
    /\ pc = "done"
    /\ result = Ok(PyNone)
    /\ sent = <<>>

-----------------------------------------------------------------------------
(* The page requests of get_all_urls *)

\* the listing ended at the last response: a page that validates with a null
\* cursor, after pages that validate with a cursor
ListingOfPages(k) ==
    /\ Len(received) = k
    /\ \A i \in 1..k : PageAccepted(received[i])
    /\ \A i \in 1..k : IsNone(CursorOf(received[i])) <=> i = k

\* C25: get_all_urls fetches the pages one after the other: its first request
\* carries no cursor, request i + 1 carries the nextCursor of response i, at most
\* one request is unanswered at any time, and a listing of k pages whose page k
\* has a null cursor takes exactly k requests.
C25_SequentialPages ==
    frame.op = "get_all_urls"
    => /\ \A i \in 1..Len(sent) :
            /\ sent[i].method = "GET"
            /\ IF i = 1 THEN "cursor" \notin DOMAIN sent[i].params.v
               ELSE /\ "cursor" \in DOMAIN sent[i].params.v
                    /\ sent[i].params.v.cursor = CursorOf(received[i - 1])
       /\ Len(sent) - Len(received) \in {0, 1}
       /\ pc = "awaiting" <=> Len(sent) = Len(received) + 1
       /\ \A k \in 1..MaxPages : (pc = "done" /\ ListingOfPages(k)) => Len(sent) = k
       /\ \A k \in 1..MaxPages :
            (Len(received) >= k /\ PageAccepted(received[k]) /\ IsNone(CursorOf(received[k])))
                => Len(sent) = k

\* two pages, the second with a null cursor, were fetched with two requests, the
\* second carrying the cursor of the first page
C25_Witness ==
    /\ pc = "done"
    /\ frame.op = "get_all_urls"
    /\ ListingOfPages(2)
    /\ Len(sent) = 2
    /\ sent[2].params.v.cursor = CursorOf(received[1])

-----------------------------------------------------------------------------
(* Checks of the arguments before the request *)

\* the operation has raised exc without a request
RaisedLocally(exc) ==
    /\ pc = "done"
    /\ ~result.ok
    /\ result.exc = exc
    /\ sent = <<>>
    /\ received = <<>>

\* the operation has sent its request
Requested == Len(sent) = 1

\* C26: update_bookmark with an empty update_data and get_asset with an id that
\* is blank or shorter than 5 characters once trimmed raise ValueError, and
\* upload_new_asset with a path that is not a file raises FileNotFoundError;
\* none of them sends a request. With other arguments each sends its request.
C26_CheckedBeforeRequest ==
    /\ frame.op = "update_bookmark"
        => IF frame.args.update_data = PyDict(EmptyMap)
           THEN RaisedLocally("ValueError") ELSE Requested
    /\ frame.op = "get_asset"
        => IF Len(Strip(frame.args.asset_id)) < 5
           THEN RaisedLocally("ValueError") ELSE Requested
    /\ frame.op = "upload_new_asset"
        => IF ~frame.args.file.isfile THEN RaisedLocally("FileNotFoundError")
           ELSE (frame.args.file.readable => Requested)

\* get_asset(" as12 ") has raised ValueError without a request
C26_Witness ==
    /\ frame.op = "get_asset"
    /\ frame.args.asset_id = <<" ", "a", "s", "1", "2", " ">>
    /\ RaisedLocally("ValueError")

\* update_bookmark with {} has raised ValueError without a request
C26_UpdateWitness ==
    /\ frame.op = "update_bookmark"
    /\ frame.args.update_data = PyDict(EmptyMap)
    /\ RaisedLocally("ValueError")

\* upload_new_asset of a missing file has raised FileNotFoundError without a request
C26_UploadWitness ==
    /\ frame.op = "upload_new_asset"
    /\ ~frame.args.file.isfile
    /\ RaisedLocally("FileNotFoundError")

-----------------------------------------------------------------------------
(* The end of get_all_urls *)

\* the page validates and has a cursor that is neither null nor empty
Continues(resp) ==
    PageAccepted(resp) /\ CursorOf(resp) \notin {PyNone, PyStr(<<>>)}

\* the last response
LastReceived == received[Len(received)]

\* a page request of get_all_urls is unanswered
AwaitingPage == pc = "awaiting" /\ frame.op = "get_all_urls"

\* get_all_urls has requested a further page
Continued == AwaitingPage /\ received # <<>>

\* C27: get_all_urls ends exactly when a page has a null or empty nextCursor or
\* the fetch of a page raises: every other answer, whatever the number of pages
\* before it and whether or not its cursor was seen before, is followed by the
\* request of the next page with that cursor. So the run returns once the
\* service stops answering with a cursor, and does not return while it goes on.
C27_EndsOnLastPage ==
    /\ []((pc = "done" /\ frame.op = "get_all_urls" /\ received # <<>>)
            => ~Continues(LastReceived))
    /\ [](Continued => (Continues(LastReceived)
                        /\ sent[Len(sent)].params.v.cursor = CursorOf(LastReceived)))
    /\ [][(AwaitingPage /\ received' # received)
            => (pc' = "awaiting" <=> Continues(received'[Len(received')]))]_vars
    /\ (<>[]~Continued) => []<>(pc # "awaiting")

\* the service has answered twice with the cursor "c1" and a third page is
\* requested with it
C27_Witness ==
    /\ Continued
    /\ Len(received) = 2
    /\ Continues(received[1])
    /\ CursorOf(received[1]) = CursorOf(received[2])
    /\ sent[1] = sent[2]

\* get_all_urls has returned on a page with a null cursor that followed a page
\* with a cursor
C27_ReturnedWitness ==
    /\ pc = "done"
    /\ frame.op = "get_all_urls"
    /\ Len(received) = 2
    /\ Continues(received[1])
    /\ PageAccepted(received[2])
    /\ IsNone(CursorOf(received[2]))

-----------------------------------------------------------------------------
(* What get_bookmark_id_by_url raises *)

\* the bookmarks of the answered search page
Candidates == received[1].json.v.bookmarks.v

\* the candidates with a URL that validate_url refuses
RefusedCandidates ==
    {j \in 1..Len(Candidates) :
        /\ Truthy(PayloadUrl(Candidates[j]))
        /\ IsNone(NormalizedUrlOf(Candidates[j]))}

\* C28: once validate_url has accepted the query URL, get_bookmark_id_by_url
\* does not raise: it returns None when the search fails or its page does not
\* validate, and when a candidate whose URL validate_url refuses comes before the
\* first match, also if a match follows. A non-blank query URL that validate_url
\* refuses raises its error to the caller before any request.
C28_RaisesOnlyOnQueryUrl ==
    /\ (LookupOfValidUrl /\ pc = "done")
        => /\ result.ok
           /\ Len(sent) = 1
           /\ ~PageAccepted(received[1]) => result = Ok(PyNone)
           /\ (/\ PageAccepted(received[1])
               /\ RefusedCandidates # {}
               /\ \A i \in LookupMatches : i > SetMin(RefusedCandidates))
                => result = Ok(PyNone)
    /\ (/\ frame.op = "get_bookmark_id_by_url"
        /\ Strip(frame.args.url) # <<>>
        /\ ~ValidateUrl(Strip(frame.args.url)).ok)
        => /\ pc = "done"
           /\ result = ValidateUrl(Strip(frame.args.url))
           /\ ~result.ok
           /\ sent = <<>>
           /\ received = <<>>

\* the lookup of "https://example.com" on a page with a link to "not-a-url"
\* before the link to "https://example.com/" has returned None
C28_Witness ==
    /\ LookupOfValidUrl
    /\ pc = "done"
    /\ frame.args.url = URL_EX
    /\ PageAccepted(received[1])
    /\ Candidates = <<BmLinkNot, BmLinkEx>>
    /\ RefusedCandidates = {1}
    /\ LookupMatches = {2}
    /\ result = Ok(PyNone)

\* the lookup of "not-a-url" has raised ValueError with no request sent
C28_RaisedWitness ==
    /\ frame.op = "get_bookmark_id_by_url"
    /\ frame.args.url = URL_NOT
    /\ pc = "done"
    /\ result.exc = "ValueError"
    /\ sent = <<>>

\* the search of the lookup was answered 401 and the lookup has returned None
C28_FailedSearchWitness ==
    /\ LookupOfValidUrl
    /\ pc = "done"
    /\ received[1].status = HTTP_UNAUTHORIZED
    /\ result = Ok(PyNone)

-----------------------------------------------------------------------------
(* What get_asset returns *)

\* the request of get_asset has been answered
AssetAnswered == frame.op = "get_asset" /\ pc = "done" /\ received # <<>>

\* C29: get_asset returns bytes on every success: the content of the response
\* on a 2xx other than 204 and b"" on 204, whatever the content is; it raises
\* only on a failure, never its own 'Expected bytes from asset endpoint'.
C29_AssetIsBytes ==
    AssetAnswered
    => /\ "Accept" \in DOMAIN sent[1].headers /\ sent[1].headers["Accept"] = <<"*/*">>
       /\ (~received[1].neterr /\ received[1].status = 204) => result = Ok(PyBytes(<<>>))
       /\ (~received[1].neterr /\ received[1].status \in (200..299) \ {204})
            => result = Ok(PyBytes(received[1].raw))
       /\ result.ok => result.value.t = "bytes"
       /\ ~result.ok
            => /\ received[1].neterr \/ received[1].status \notin ((200..299) \ {401})
               /\ result.msg.text # "Expected bytes from asset endpoint"

\* get_asset was answered 200 with a JSON body and has returned its bytes
C29_Witness ==
    /\ AssetAnswered
    /\ received[1].status = 200
    /\ received[1].decodes
    /\ received[1].raw # <<>>
    /\ result = Ok(PyBytes(received[1].raw))

\* get_asset was answered 204 and has returned b""
C29_EmptyWitness ==
    /\ AssetAnswered
    /\ received[1].status = 204
    /\ result = Ok(PyBytes(<<>>))

-----------------------------------------------------------------------------
(* What the operations leave behind *)

\* the value of a variable of os.environ, None when it is not set
Getenv(env, key) == IF key \in DOMAIN env THEN PyStr(env[key]) ELSE PyNone

\* C30: with one caller, no step changes RAISE_VALIDATION_ERROR in os.environ
\* (validate_url, alone or inside get_bookmark_id_by_url, leaves the value or
\* the absence it found) and no step changes api_key, base_url, timeout or
\* _default_headers of the client (_call works on a copy of the headers, with
\* or without extra_headers and files).
C30_StateLeftAsFound ==
    [][/\ Getenv(environ', RAISE_KEY) = Getenv(environ, RAISE_KEY)
       /\ environ' = environ
       /\ client'.api_key = client.api_key
       /\ client'.base_url = client.base_url
       /\ client'.timeout = client.timeout
       /\ client'.default_headers = client.default_headers]_vars

\* validate_url has accepted a URL, so validators.url ran with the variable set,
\* and RAISE_VALIDATION_ERROR is not set, as before the call
C30_Witness ==
    /\ UrlValidated
    /\ result.ok
    /\ RAISE_KEY \notin DOMAIN environ

\* validate_url has refused "http://a.-b.co" inside the with block and
\* RAISE_VALIDATION_ERROR is "False", as before the call
C30_RaisedWitness ==
    /\ UrlValidated
    /\ frame.args.url = URL_DASH
    /\ ~result.ok
    /\ Getenv(environ, RAISE_KEY) = PyStr("False")

\* _call was given files and its own Accept header, and the default headers of
\* the client still are the three of the constructor
C30_CallWitness ==
    /\ frame.op = "_call"
    /\ pc = "awaiting"
    /\ Truthy(frame.args.files)
    /\ Truthy(frame.args.extra_headers)
    /\ "Content-Type" \notin DOMAIN sent[1].headers
    /\ client.default_headers = DefaultHeaders(PyStr("test_key"))
    /\ "Content-Type" \in DOMAIN client.default_headers

====
